---- MODULE Spec2Model ----
(***************************************************************************)
(* A model of pypass.store.Store: a password store kept as a directory    *)
(* tree of gpg-encrypted key files, .gpg-id scope files and a git history. *)
(*                                                                         *)
(* A path is the sequence of its '/'-separated components ("a/b" is       *)
(* <<"a","b">>, "b/" is <<"b","">>, "" is <<>>); the result "." of         *)
(* normpath is the empty sequence.  Paths on disk are absolute: the        *)
(* sequence of components below the filesystem root "/".  A full path of   *)
(* the code (a string that may have had '.gpg' appended) is a record       *)
(* [p |-> components, gpg |-> whether '.gpg' was appended].  File content  *)
(* is the sequence of its characters.                                      *)
(*                                                                         *)
(* The caller of the API is one thread: a call runs from its beginning to  *)
(* its return with no other call in between.  The generator that iter_dir  *)
(* returns runs between the caller's calls of next, and other calls may be *)
(* made between two of them.                                               *)
(***************************************************************************)
EXTENDS Integers, Sequences, FiniteSets, TLC

VARIABLES
    dirs,      \* the directories that exist (absolute paths)
    keys,      \* key files: absolute path without '.gpg' -> [data, rcpt]
    gpgids,    \* .gpg-id files: directory -> list of gpg ids
    files,     \* the other files: absolute path -> content
    repo,      \* Store.repo: whether there is a git repository
    config,    \* git config: the settings made, oldest first
    staged,    \* git index: changes staged and not yet committed
    hist,      \* git log: the commits, oldest first
    unlogged,  \* the number of changing calls made without a repository
    gen,       \* the generator of iter_dir that the caller holds
    walked,    \* what the generator has yielded, and whether the store changed
    last       \* the last call of the API and its outcome

vars == <<dirs, keys, gpgids, files, repo, config, staged, hist, unlogged, gen, walked, last>>

\* The number of commits, or of changes without a repository, after which
\* the store is only read.
MaxHist == 1

(***************************************************************************)
(* Sequences and functions                                                 *)
(***************************************************************************)
Front(s) == SubSeq(s, 1, Len(s) - 1)

Last(s) == s[Len(s)]

IsPrefix(p, q) == Len(p) <= Len(q) /\ SubSeq(q, 1, Len(p)) = p

Put(f, k, v) == [x \in DOMAIN f \cup {k} |-> IF x = k THEN v ELSE f[x]]

Restrict(f, S) == [x \in S |-> f[x]]

EmptyMap == [x \in {} |-> x]

(***************************************************************************)
(* os.path                                                                 *)
(***************************************************************************)
store_dir == <<"s">>

\* The loop of posixpath.normpath over the components of a path.
RECURSIVE norm_comps(_, _, _)
norm_comps(comps, new_comps, initial_slashes) ==
    IF comps = <<>> THEN new_comps
    ELSE LET comp == Head(comps)
             rest == Tail(comps)
         IN  IF comp \in {"", "."}
             THEN norm_comps(rest, new_comps, initial_slashes)
             ELSE IF \/ comp # ".."
                     \/ (~initial_slashes /\ new_comps = <<>>)
                     \/ (new_comps # <<>> /\ Last(new_comps) = "..")
             THEN norm_comps(rest, Append(new_comps, comp), initial_slashes)
             ELSE IF new_comps # <<>>
             THEN norm_comps(rest, Front(new_comps), initial_slashes)
             ELSE norm_comps(rest, new_comps, initial_slashes)

\* os.path.normpath of a relative path.
normpath(path) == norm_comps(path, <<>>, FALSE)

\* os.path.normpath of an absolute path (also: the file the kernel resolves it to).
normpath_abs(path) == norm_comps(path, <<>>, TRUE)

\* os.path.join(a, b) for a relative b.
join(a, b) == a \o b

\* The components of the string normpath returned: '.' for the empty path.
dotted(path) == IF path = <<>> THEN <<".">> ELSE path

\* path + '.gpg' for a normalised relative path ("." + ".gpg" is the name "..gpg").
add_gpg(path) == [p |-> IF path = <<>> THEN <<".">> ELSE path, gpg |-> TRUE]

\* A full path without the '.gpg' ending.
plain(p) == [p |-> p, gpg |-> FALSE]

\* os.path.join(store_dir, f) for a relative full path f.
join_store(f) == [p |-> join(store_dir, f.p), gpg |-> f.gpg]

\* The file system entry a full path resolves to.
resolve(f) ==
    IF f.gpg THEN [p |-> Append(normpath_abs(Front(f.p)), Last(f.p)), gpg |-> TRUE]
    ELSE [p |-> normpath_abs(f.p), gpg |-> FALSE]

\* os.path.dirname of a full path.
dirname(f) == Front(f.p)

\* str.endswith('/') of a full path.
endswith_sep(f) == ~f.gpg /\ f.p # <<>> /\ Last(f.p) = ""

(***************************************************************************)
(* The file system.  A world is the record of the store's files and of     *)
(* its git repository.                                                     *)
(***************************************************************************)
\* The components of a path that the kernel cannot step over, by the number
\* of components before them: the place reached so far is no directory.  The
\* last component is stepped from the place the others lead to; where these
\* are directories, that place is the one normpath names.
blocked(w, path) ==
    {i \in 0..(Len(path) - 1) : normpath_abs(SubSeq(path, 1, i)) \notin w.dirs}

\* Whether the kernel can look the path up: what is there may not exist.
reachable(w, path) == blocked(w, path) = {}

\* Whether the entry r is a directory, the .gpg-id file of one, a file.
dir_at(w, r) == ~r.gpg /\ r.p \in w.dirs

gpg_id_at(w, r) ==
    ~r.gpg /\ r.p # <<>> /\ Last(r.p) = ".gpg-id" /\ Front(r.p) \in DOMAIN w.gpgids

file_at(w, r) ==
    \/ (r.gpg /\ r.p \in DOMAIN w.keys)
    \/ gpg_id_at(w, r)
    \/ (~r.gpg /\ r.p \in DOMAIN w.files)

\* The error of a path that cannot be looked up, b its blocked components: the
\* first of them is stepped from a file or from nothing.
lookup_error(w, path, b) ==
    IF file_at(w, plain(normpath_abs(SubSeq(path, 1, CHOOSE i \in b : \A j \in b : i <= j))))
    THEN "NotADirectoryError"
    ELSE "FileNotFoundError"

isdir(w, f) == reachable(w, f.p) /\ dir_at(w, resolve(f))

is_gpg_id(w, f) == reachable(w, f.p) /\ gpg_id_at(w, resolve(f))

isfile(w, f) == reachable(w, f.p) /\ file_at(w, resolve(f))

exists(w, f) == isdir(w, f) \/ isfile(w, f)

\* A path without the '/' at its end.
RECURSIVE rstrip_sep(_)
rstrip_sep(path) ==
    IF path # <<>> /\ Last(path) = "" THEN rstrip_sep(Front(path)) ELSE path

\* What a file system call leaves: the world and the error ("ok" for none).
Done(w, err) == [w |-> w, err |-> err]

\* os.mkdir of the absolute path p, b its blocked components.
mkdir_at(w, p, b) ==
    IF b # {} THEN Done(w, lookup_error(w, p, b))
    ELSE IF p = <<>> \/ exists(w, plain(p)) THEN Done(w, "FileExistsError")
    ELSE Done([w EXCEPT !.dirs = @ \cup {normpath_abs(p)}], "ok")

\* os.mkdir(path) of an absolute path.
mkdir(w, path) == mkdir_at(w, rstrip_sep(path), blocked(w, rstrip_sep(path)))

\* The end of os.makedirs: m is what os.mkdir(name) left, and its error is
\* passed over when exist_ok is set and name is a directory.
makedirs_leaf(m, w, name, exist_ok) ==
    IF m.err # "ok" /\ exist_ok /\ isdir(w, plain(name)) THEN Done(w, "ok") ELSE m

\* os.makedirs once the head of name is there: head is what making it left
\* (FileExistsError is passed over), made whether it had to be made.
makedirs_tail(head, name, exist_ok, made) ==
    IF head.err \notin {"ok", "FileExistsError"} THEN head
    ELSE IF made /\ Last(rstrip_sep(name)) = "." THEN Done(head.w, "ok")
    ELSE makedirs_leaf(mkdir(head.w, name), head.w, name, exist_ok)

\* os.makedirs(name, exist_ok=exist_ok) of an absolute path.
RECURSIVE makedirs(_, _, _)
makedirs(w, name, exist_ok) ==
    IF rstrip_sep(name) # <<>> /\ ~exists(w, plain(Front(rstrip_sep(name))))
    THEN makedirs_tail(makedirs(w, Front(rstrip_sep(name)), exist_ok), name, exist_ok, TRUE)
    ELSE makedirs_tail(Done(w, "ok"), name, exist_ok, FALSE)

\* shutil.rmtree(d) of a directory d: d and everything below it.
rmtree(w, d) ==
    [w EXCEPT !.dirs = {x \in @ : ~IsPrefix(d, x)},
              !.keys = Restrict(@, {k \in DOMAIN @ : ~IsPrefix(d, Front(k))}),
              !.gpgids = Restrict(@, {g \in DOMAIN @ : ~IsPrefix(d, g)}),
              !.files = Restrict(@, {x \in DOMAIN @ : ~IsPrefix(d, Front(x))})]

\* shutil.rmtree(path, ignore_errors=True) of a directory, by the path as it
\* is written: everything below the directory is removed, and then the
\* directory by os.rmdir(path), which fails for a path that ends in '.'; the
\* error is ignored and the directory is left, empty.
rmtree_ignore_errors(w, path) ==
    IF Last(path) = "."
    THEN [rmtree(w, normpath_abs(path)) EXCEPT !.dirs = @ \cup {normpath_abs(path)}]
    ELSE rmtree(w, normpath_abs(path))

\* Whether directory d has no entries.
dir_empty(w, d) ==
    /\ ~\E x \in w.dirs : Len(x) > Len(d) /\ IsPrefix(d, x)
    /\ ~\E k \in DOMAIN w.keys : Front(k) = d
    /\ d \notin DOMAIN w.gpgids
    /\ ~\E x \in DOMAIN w.files : Front(x) = d

(***************************************************************************)
(* pypass.gpg: a key file holds its plaintext and the gpg ids it is        *)
(* encrypted to, which are those of the nearest .gpg-id file at or above   *)
(* the key's directory, within the store.                                  *)
(***************************************************************************)
RECURSIVE effective_ids(_, _)
effective_ids(w, d) ==
    IF d \in DOMAIN w.gpgids THEN w.gpgids[d]
    ELSE IF d = store_dir \/ d = <<>> THEN <<>>
    ELSE effective_ids(w, Front(d))

encrypt(w, k, data) == [data |-> data, rcpt |-> effective_ids(w, Front(k))]

_write_key(w, key_path, data) ==
    LET k == resolve(key_path).p
    IN  [w EXCEPT !.keys = Put(@, k, encrypt(w, k, data))]

_read_key(w, key_path) == w.keys[resolve(key_path).p].data

\* The key files at or below a full path.
keys_below(w, f) ==
    LET r == resolve(f)
    IN  IF r.gpg THEN {k \in DOMAIN w.keys : k = r.p}
        ELSE {k \in DOMAIN w.keys : IsPrefix(r.p, Front(k))}

_reencrypt_path(w, path) ==
    LET ks == keys_below(w, path)
    IN  [w EXCEPT !.keys = [k \in DOMAIN @ |->
                               IF k \in ks THEN encrypt(w, k, @[k].data) ELSE @[k]]]

(***************************************************************************)
(* pypass.git: stage and commit.  A commit is its message (the text and    *)
(* the paths or ids formatted into it) and the changes it records.  A      *)
(* change records what is at its path when it is staged: whether the path  *)
(* exists, and the key files and .gpg-id files at or below it.  Without a  *)
(* repository (Store.repo is None) staging and committing do nothing.      *)
(***************************************************************************)
Msg(text, args) == [text |-> text, args |-> args]

\* The .gpg-id files at or below a full path, by their directories.
ids_below(w, f) ==
    LET r == resolve(f)
    IN  IF r.gpg THEN {}
        ELSE IF is_gpg_id(w, f) THEN {Front(r.p)}
        ELSE {g \in DOMAIN w.gpgids : IsPrefix(r.p, g)}

Change(w, kind, f) ==
    LET r == resolve(f)
    IN  [kind |-> kind, p |-> r.p, gpg |-> r.gpg, present |-> exists(w, f),
         keys |-> Restrict(w.keys, keys_below(w, f)),
         ids |-> Restrict(w.gpgids, ids_below(w, f))]

\* Stage path and commit everything staged under the message.
_git_add_path(w, path, message) ==
    IF ~w.repo THEN w
    ELSE [w EXCEPT !.hist = Append(@, [msg |-> message,
                                       changes |-> Append(w.staged, Change(w, "add", path))]),
                   !.staged = <<>>]

\* Stage the removal of path; commit everything staged unless commit is FALSE.
_git_remove_path(w, path, message, recursive, commit) ==
    IF ~w.repo THEN w
    ELSE IF commit
    THEN [w EXCEPT !.hist = Append(@, [msg |-> message,
                                       changes |-> Append(w.staged, Change(w, "rm", path))]),
                   !.staged = <<>>]
    ELSE [w EXCEPT !.staged = Append(@, Change(w, "rm", path))]

\* Make a repository for the store: one with nothing staged or committed.
_git_init(w) == [w EXCEPT !.repo = TRUE, !.staged = <<>>, !.hist = <<>>]

\* git config: record the setting.
_git_config(w, scope, name, value) ==
    IF ~w.repo THEN w
    ELSE [w EXCEPT !.config = Append(@, [scope |-> scope, name |-> name, value |-> value])]

(***************************************************************************)
(* The outcome of a call: the world after it, the exception it raised      *)
(* ("ok" for none) and what it returned.                                   *)
(***************************************************************************)
None == <<"<None>">>

Ok(w, ret) == [w |-> w, err |-> "ok", ret |-> ret]

Fail(w, err) == [w |-> w, err |-> err, ret |-> None]

\* The exceptions, by the names the design gives them.
NotFoundError == "FileNotFoundError"
MissingIdentityError == "FileNotFoundError"
AlreadyExistsError == "FileExistsError"
PathConflictError == "FileExistsError"
DirectoryNotEmptyError == "OSError"
InvalidPath == "InvalidPath"
NotInitialised == "NotInitialised"

(***************************************************************************)
(* pypass.util: the decorators                                             *)
(***************************************************************************)
\* Whether a path of the caller stays inside the store.
inside_store(path) ==
    path = None \/ IsPrefix(store_dir, normpath_abs(join(store_dir, path)))

gpg_id_of(d) == plain(Append(d, ".gpg-id"))

\* is_init with the store directory tested in place of its .gpg-id file.
is_init_dir(w) == isdir(w, plain(store_dir))

is_init(w) == isfile(w, gpg_id_of(store_dir))

(***************************************************************************)
(* Store                                                                   *)
(***************************************************************************)
init_store_delete(w, gpg_ids, gpg_id_dir) ==
    LET gpg_id_path == gpg_id_of(gpg_id_dir) IN
    IF ~isfile(w, gpg_id_path) THEN Fail(w, "FileNotFoundError")
    ELSE LET w1 == [w EXCEPT !.gpgids =
                        Restrict(@, DOMAIN @ \ {normpath_abs(gpg_id_dir)})]
             w2 == _git_remove_path(w1, gpg_id_path,
                                    Msg("Deinitialize", <<gpg_id_path.p>>), TRUE, TRUE)
             w3 == IF isdir(w2, plain(gpg_id_dir))
                   THEN rmtree_ignore_errors(w2, gpg_id_dir) ELSE w2
         IN  Ok(w3, None)

init_store_create(w, gpg_ids, gpg_id_dir) ==
    LET gpg_id_path == gpg_id_of(gpg_id_dir) IN
    IF makedirs(w, gpg_id_dir, FALSE).err # "ok"
    THEN Fail(makedirs(w, gpg_id_dir, FALSE).w, makedirs(w, gpg_id_dir, FALSE).err)
    ELSE LET w1 == makedirs(w, gpg_id_dir, FALSE).w
             w2 == [w1 EXCEPT !.gpgids = Put(@, normpath_abs(gpg_id_dir), gpg_ids)]
             w3 == _git_add_path(w2, gpg_id_path, Msg("Set GPG id to", <<gpg_ids>>))
         IN  Ok(w3, None)

\* cwd_nondir: whether the normalised path names, from the working directory
\* of the process, something that is no directory ('.' is always one).
\* gpg_ids None takes the way of the empty list, and ', '.join(gpg_ids) then
\* raises TypeError for the message of the last commit.
init_store(w, gpg_ids, path, cwd_nondir) ==
    IF ~inside_store(path) THEN Fail(w, InvalidPath)
    ELSE IF path # None /\ normpath(path) # <<>> /\ cwd_nondir
    THEN Fail(w, "FileExistsError")
    ELSE LET gpg_id_dir == IF path = None THEN store_dir
                           ELSE join(store_dir, dotted(normpath(path)))
             o == IF gpg_ids = None \/ gpg_ids = <<>>
                  THEN init_store_delete(w, gpg_ids, gpg_id_dir)
                  ELSE init_store_create(w, gpg_ids, gpg_id_dir)
         IN  IF o.err # "ok" THEN o
             ELSE IF gpg_ids = None
             THEN Fail(_reencrypt_path(o.w, plain(gpg_id_dir)), "TypeError")
             ELSE LET w4 == _reencrypt_path(o.w, plain(gpg_id_dir))
                      w5 == _git_add_path(w4, plain(gpg_id_dir),
                                Msg("Reencrypt password store using new GPG id",
                                    <<gpg_ids>>))
                  IN  Ok(w5, None)

\* The command line of the gpg binary, as the constructor leaves it.
gpg_bin == "gpg"

gpg_opts == <<"--quiet", "--yes", "--compress-algo=none", "--no-encrypt-to",
              "--batch", "--use-agent">>

\* The content of .gitattributes: '*.gpg diff=gpg\n'.
attributes == <<"*", ".", "g", "p", "g", " ", "d", "i", "f", "f", "=", "g", "p", "g", "\n">>

init_git(w) ==
    IF ~is_init(w) THEN Fail(w, NotInitialised)
    ELSE IF w.repo THEN Ok(w, None)
    ELSE LET attributes_path == plain(join(store_dir, <<".gitattributes">>))
             w1 == _git_add_path(_git_init(w), plain(store_dir),
                       Msg("Add current contents of password store", <<>>))
             w2 == [w1 EXCEPT !.files = Put(@, attributes_path.p, attributes)]
             w3 == _git_add_path(w2, attributes_path,
                       Msg("Configure git repository for gpg file diff", <<>>))
             w4 == _git_config(w3, "--local", "diff.gpg.binary", "true")
             w5 == _git_config(w4, "--local", "diff.gpg.textconf",
                               <<gpg_bin, "-d">> \o gpg_opts)
         IN  Ok(w5, None)

get_key(w, path) ==
    IF ~is_init(w) THEN Fail(w, NotInitialised)
    ELSE IF ~inside_store(path) THEN Fail(w, InvalidPath)
    ELSE IF path = None \/ path = <<>> THEN Ok(w, None)
    ELSE LET key_path == join_store(add_gpg(normpath(path))) IN
         IF isfile(w, key_path) THEN Ok(w, _read_key(w, key_path))
         ELSE Fail(w, "FileNotFoundError")

\* set_key that commits before it writes the key file.
set_key_commit_first(w, path, key_data, force) ==
    IF ~is_init(w) THEN Fail(w, NotInitialised)
    ELSE IF ~inside_store(path) THEN Fail(w, InvalidPath)
    ELSE IF path = None \/ path = <<>> THEN Ok(w, None)
    ELSE LET key_path == join_store(add_gpg(normpath(path)))
             key_dir == dirname(key_path)
         IN  IF exists(w, key_path) /\ ~force THEN Fail(w, "FileExistsError")
             ELSE IF makedirs(w, key_dir, TRUE).err # "ok"
             THEN Fail(makedirs(w, key_dir, TRUE).w, makedirs(w, key_dir, TRUE).err)
             ELSE LET w1 == makedirs(w, key_dir, TRUE).w
                      w2 == _git_add_path(w1, key_path,
                                Msg("Add given password to store", <<normpath(path)>>))
                      w3 == _write_key(w2, key_path, key_data)
                  IN  Ok(w3, None)

\* set_key with the path joined as given, not normalised.
set_key_raw(w, path, key_data, force) ==
    IF ~is_init(w) THEN Fail(w, NotInitialised)
    ELSE IF ~inside_store(path) THEN Fail(w, InvalidPath)
    ELSE IF path = None \/ path = <<>> THEN Ok(w, None)
    ELSE LET key_path == join_store(add_gpg(path))
             key_dir == dirname(key_path)
         IN  IF exists(w, key_path) /\ ~force THEN Fail(w, "FileExistsError")
             ELSE IF makedirs(w, key_dir, TRUE).err # "ok"
             THEN Fail(makedirs(w, key_dir, TRUE).w, makedirs(w, key_dir, TRUE).err)
             ELSE LET w1 == makedirs(w, key_dir, TRUE).w
                      w2 == _write_key(w1, key_path, key_data)
                      w3 == _git_add_path(w2, key_path,
                                Msg("Add given password to store", <<path>>))
                  IN  Ok(w3, None)

\* set_key with the test for an existing entry left out.
set_key_forced(w, path, key_data, force) ==
    IF ~is_init(w) THEN Fail(w, NotInitialised)
    ELSE IF ~inside_store(path) THEN Fail(w, InvalidPath)
    ELSE IF path = None \/ path = <<>> THEN Ok(w, None)
    ELSE LET key_path == join_store(add_gpg(normpath(path)))
             key_dir == dirname(key_path)
             w1 == makedirs(w, key_dir, TRUE).w
             w2 == _write_key(w1, key_path, key_data)
             w3 == _git_add_path(w2, key_path,
                       Msg("Add given password to store", <<normpath(path)>>))
         IN  Ok(w3, None)

set_key(w, path, key_data, force) ==
    IF ~is_init(w) THEN Fail(w, NotInitialised)
    ELSE IF ~inside_store(path) THEN Fail(w, InvalidPath)
    ELSE IF path = None \/ path = <<>> THEN Ok(w, None)
    ELSE LET key_path == join_store(add_gpg(normpath(path)))
             key_dir == dirname(key_path)
         IN  IF exists(w, key_path) /\ ~force THEN Fail(w, "FileExistsError")
             ELSE IF makedirs(w, key_dir, TRUE).err # "ok"
             THEN Fail(makedirs(w, key_dir, TRUE).w, makedirs(w, key_dir, TRUE).err)
             ELSE LET w1 == makedirs(w, key_dir, TRUE).w
                      w2 == _write_key(w1, key_path, key_data)
                      w3 == _git_add_path(w2, key_path,
                                Msg("Add given password to store", <<normpath(path)>>))
                  IN  Ok(w3, None)

\* remove_path that removes a directory with all it holds, recursive or not.
remove_path_rmtree(w, path, recursive) ==
    IF ~is_init(w) THEN Fail(w, NotInitialised)
    ELSE IF ~inside_store(path) THEN Fail(w, InvalidPath)
    ELSE IF path = None THEN Fail(w, "TypeError")
    ELSE LET key_dir == plain(normpath_abs(join(store_dir, path)))
             key_file == [p |-> IF key_dir.p = <<>> THEN <<".">> ELSE key_dir.p,
                          gpg |-> TRUE]
         IN  IF isdir(w, key_dir)
             THEN Ok(_git_remove_path(rmtree(w, key_dir.p), key_dir,
                         Msg("Remove from store", <<path>>), recursive, TRUE), None)
             ELSE IF ~isfile(w, key_file) THEN Fail(w, "FileNotFoundError")
             ELSE Ok(_git_remove_path(
                         [w EXCEPT !.keys = Restrict(@, DOMAIN @ \ {key_file.p})],
                         key_file, Msg("Remove from store", <<path>>), recursive, TRUE),
                     None)

\* remove_path without its trap decorator.
remove_path_untrapped(w, path, recursive) ==
    IF ~is_init(w) THEN Fail(w, NotInitialised)
    ELSE IF path = None THEN Fail(w, "TypeError")
    ELSE LET key_dir == plain(normpath_abs(join(store_dir, path)))
             key_file == [p |-> IF key_dir.p = <<>> THEN <<".">> ELSE key_dir.p,
                          gpg |-> TRUE]
         IN  IF isdir(w, key_dir)
             THEN IF recursive
                  THEN Ok(_git_remove_path(rmtree(w, key_dir.p), key_dir,
                              Msg("Remove from store", <<path>>), recursive, TRUE), None)
                  ELSE IF ~dir_empty(w, key_dir.p) THEN Fail(w, "OSError")
                  ELSE Ok(_git_remove_path([w EXCEPT !.dirs = @ \ {key_dir.p}], key_dir,
                              Msg("Remove from store", <<path>>), recursive, TRUE), None)
             ELSE IF ~isfile(w, key_file) THEN Fail(w, "FileNotFoundError")
             ELSE Ok(_git_remove_path(
                         [w EXCEPT !.keys = Restrict(@, DOMAIN @ \ {key_file.p})],
                         key_file, Msg("Remove from store", <<path>>), recursive, TRUE),
                     None)

\* os.path.join(self.store_dir, path) raises TypeError for None.
remove_path(w, path, recursive) ==
    IF ~is_init(w) THEN Fail(w, NotInitialised)
    ELSE IF ~inside_store(path) THEN Fail(w, InvalidPath)
    ELSE IF path = None THEN Fail(w, "TypeError")
    ELSE LET key_dir == plain(normpath_abs(join(store_dir, path)))
             key_file == [p |-> IF key_dir.p = <<>> THEN <<".">> ELSE key_dir.p,
                          gpg |-> TRUE]
         IN  IF isdir(w, key_dir)
             THEN IF recursive
                  THEN Ok(_git_remove_path(rmtree(w, key_dir.p), key_dir,
                              Msg("Remove from store", <<path>>), recursive, TRUE), None)
                  ELSE IF ~dir_empty(w, key_dir.p) THEN Fail(w, "OSError")
                  ELSE Ok(_git_remove_path([w EXCEPT !.dirs = @ \ {key_dir.p}], key_dir,
                              Msg("Remove from store", <<path>>), recursive, TRUE), None)
             ELSE IF ~isfile(w, key_file) THEN Fail(w, "FileNotFoundError")
             ELSE Ok(_git_remove_path(
                         [w EXCEPT !.keys = Restrict(@, DOMAIN @ \ {key_file.p})],
                         key_file, Msg("Remove from store", <<path>>), recursive, TRUE),
                     None)

(***************************************************************************)
(* Text: str.split('\n') and '\n'.join                                     *)
(***************************************************************************)
NL == "\n"

\* The index of the first sep in s at or after i, or 0.
RECURSIVE index_of(_, _, _)
index_of(s, sep, i) ==
    IF i > Len(s) THEN 0
    ELSE IF s[i] = sep THEN i
    ELSE index_of(s, sep, i + 1)

RECURSIVE split(_, _)
split(s, sep) ==
    LET i == index_of(s, sep, 1)
    IN  IF i = 0 THEN <<s>>
        ELSE <<SubSeq(s, 1, i - 1)>> \o split(SubSeq(s, i + 1, Len(s)), sep)

RECURSIVE join_lines(_, _)
join_lines(sep, lines) ==
    IF lines = <<>> THEN <<>>
    ELSE IF Len(lines) = 1 THEN lines[1]
    ELSE lines[1] \o <<sep>> \o join_lines(sep, Tail(lines))

(***************************************************************************)
(* pypass.util: password generation                                        *)
(***************************************************************************)
Alnum == {"p"}

Punctuation == {"!"}

RECURSIVE Words(_, _)
Words(chars, n) ==
    IF n = 0 THEN {<<>>}
    ELSE {Append(x, c) : x \in Words(chars, n - 1), c \in chars}

\* The passwords _gen_password(length, symbols) may return.
_gen_password(length, symbols) ==
    Words(IF symbols THEN Alnum \cup Punctuation ELSE Alnum, length)

\* gen_key whose test for an existing entry does not let inplace pass.
gen_key_strict(w, path, length, symbols, force, inplace, password) ==
    IF ~is_init(w) THEN Fail(w, NotInitialised)
    ELSE IF ~inside_store(path) THEN Fail(w, InvalidPath)
    ELSE IF path = None \/ path = <<>> THEN Ok(w, None)
    ELSE LET key_path == join_store(add_gpg(normpath(path)))
             key_dir == dirname(key_path)
             message == Msg(IF inplace THEN "Replace generated password"
                            ELSE "Add generated password", <<normpath(path)>>)
         IN  IF exists(w, key_path) /\ ~force
             THEN Fail(w, "FileExistsError")
             ELSE IF makedirs(w, key_dir, TRUE).err # "ok"
             THEN Fail(makedirs(w, key_dir, TRUE).w, makedirs(w, key_dir, TRUE).err)
             ELSE LET w1 == makedirs(w, key_dir, TRUE).w IN
                  IF ~inplace
                  THEN Ok(_git_add_path(_write_key(w1, key_path, password),
                                        key_path, message), password)
                  ELSE IF ~isfile(w1, key_path) THEN Fail(w1, "FileNotFoundError")
                  ELSE LET key_data == _read_key(w1, key_path)
                           lines == split(key_data, NL)
                           lines1 == [lines EXCEPT ![1] = password]
                           w2 == _write_key(w1, key_path, join_lines(NL, lines1))
                       IN  Ok(_git_add_path(w2, key_path, message), password)

\* gen_key that in place writes the password alone.
gen_key_whole(w, path, length, symbols, force, inplace, password) ==
    IF ~is_init(w) THEN Fail(w, NotInitialised)
    ELSE IF ~inside_store(path) THEN Fail(w, InvalidPath)
    ELSE IF path = None \/ path = <<>> THEN Ok(w, None)
    ELSE LET key_path == join_store(add_gpg(normpath(path)))
             key_dir == dirname(key_path)
             message == Msg(IF inplace THEN "Replace generated password"
                            ELSE "Add generated password", <<normpath(path)>>)
         IN  IF exists(w, key_path) /\ ~(force \/ inplace)
             THEN Fail(w, "FileExistsError")
             ELSE IF makedirs(w, key_dir, TRUE).err # "ok"
             THEN Fail(makedirs(w, key_dir, TRUE).w, makedirs(w, key_dir, TRUE).err)
             ELSE LET w1 == makedirs(w, key_dir, TRUE).w IN
                  IF inplace /\ ~isfile(w1, key_path) THEN Fail(w1, "FileNotFoundError")
                  ELSE Ok(_git_add_path(_write_key(w1, key_path, password),
                                        key_path, message), password)

gen_key(w, path, length, symbols, force, inplace, password) ==
    IF ~is_init(w) THEN Fail(w, NotInitialised)
    ELSE IF ~inside_store(path) THEN Fail(w, InvalidPath)
    ELSE IF path = None \/ path = <<>> THEN Ok(w, None)
    ELSE LET key_path == join_store(add_gpg(normpath(path)))
             key_dir == dirname(key_path)
             message == Msg(IF inplace THEN "Replace generated password"
                            ELSE "Add generated password", <<normpath(path)>>)
         IN  IF exists(w, key_path) /\ ~(force \/ inplace)
             THEN Fail(w, "FileExistsError")
             ELSE IF makedirs(w, key_dir, TRUE).err # "ok"
             THEN Fail(makedirs(w, key_dir, TRUE).w, makedirs(w, key_dir, TRUE).err)
             ELSE LET w1 == makedirs(w, key_dir, TRUE).w IN
                  IF ~inplace
                  THEN Ok(_git_add_path(_write_key(w1, key_path, password),
                                        key_path, message), password)
                  ELSE IF ~isfile(w1, key_path) THEN Fail(w1, "FileNotFoundError")
                  ELSE LET key_data == _read_key(w1, key_path)
                           lines == split(key_data, NL)
                           lines1 == [lines EXCEPT ![1] = password]
                           w2 == _write_key(w1, key_path, join_lines(NL, lines1))
                       IN  Ok(_git_add_path(w2, key_path, message), password)

(***************************************************************************)
(* pypass.util._copy_move: copy or move a key file or a directory tree.    *)
(* The result names the path that was written.                             *)
(***************************************************************************)
CopyFail(w, err, path) == [w |-> w, err |-> err, path |-> path]

\* The path below directory d that x below directory s is copied to.
rebase(x, s, d) == d \o SubSeq(x, Len(s) + 1, Len(x))

copy_file(w, s, d, move) ==
    LET w1 == makedirs(w, Front(d.p), TRUE).w
        w2 == [w1 EXCEPT !.keys = Put(@, d.p, w.keys[s.p])]
    IN  IF move THEN [w2 EXCEPT !.keys = Restrict(@, DOMAIN @ \ {s.p})] ELSE w2

copy_tree(w, s, d, move) ==
    LET ds == {x \in w.dirs : IsPrefix(s.p, x)}
        ks == {k \in DOMAIN w.keys : IsPrefix(s.p, Front(k))}
        gs == {g \in DOMAIN w.gpgids : IsPrefix(s.p, g)}
        fs == {x \in DOMAIN w.files : IsPrefix(s.p, Front(x))}
        w0 == IF move THEN rmtree(w, s.p) ELSE w
        w1 == makedirs(w0, d.p, TRUE).w
    IN  [w1 EXCEPT
            !.dirs = @ \cup {rebase(x, s.p, d.p) : x \in ds},
            !.keys = [k \in DOMAIN @ \cup {rebase(x, s.p, d.p) : x \in ks} |->
                        IF \E x \in ks : rebase(x, s.p, d.p) = k
                        THEN w.keys[CHOOSE x \in ks : rebase(x, s.p, d.p) = k]
                        ELSE @[k]],
            !.gpgids = [g \in DOMAIN @ \cup {rebase(x, s.p, d.p) : x \in gs} |->
                        IF \E x \in gs : rebase(x, s.p, d.p) = g
                        THEN w.gpgids[CHOOSE x \in gs : rebase(x, s.p, d.p) = g]
                        ELSE @[g]],
            !.files = [f \in DOMAIN @ \cup {rebase(x, s.p, d.p) : x \in fs} |->
                        IF \E x \in fs : rebase(x, s.p, d.p) = f
                        THEN w.files[CHOOSE x \in fs : rebase(x, s.p, d.p) = f]
                        ELSE @[f]]]

\* The file or directory that src is written to.
dest_of(w, s, dst) ==
    IF s.gpg /\ (isdir(w, dst) \/ endswith_sep(dst))
    THEN [p |-> Append(normpath_abs(dst.p), Last(s.p)), gpg |-> TRUE]
    ELSE resolve(dst)

\* Copy or move the existing s to d.
copy_move_to(w, s, d, force, move) ==
    IF exists(w, d) /\ ~force THEN CopyFail(w, "FileExistsError", d)
    ELSE IF d = s \/ s.gpg # d.gpg \/ (~s.gpg /\ IsPrefix(s.p, d.p))
    THEN CopyFail(w, "Error", d)
    ELSE IF makedirs(w, IF s.gpg THEN Front(d.p) ELSE d.p, TRUE).err # "ok"
    THEN CopyFail(w, makedirs(w, IF s.gpg THEN Front(d.p) ELSE d.p, TRUE).err, d)
    ELSE [w |-> IF s.gpg THEN copy_file(w, s, d, move) ELSE copy_tree(w, s, d, move),
          err |-> "ok", path |-> d]

_copy_move(w, src, dst, force, move) ==
    IF ~exists(w, src) THEN CopyFail(w, "FileNotFoundError", dst)
    ELSE copy_move_to(w, resolve(src), dest_of(w, resolve(src), dst), force, move)

with_gpg(f) == [p |-> f.p, gpg |-> TRUE]

\* old_path_full: '.gpg' is appended unless old_path is a directory.
old_full(w, old_plain) ==
    IF ~isdir(w, old_plain) THEN with_gpg(old_plain) ELSE old_plain

\* new_path_full: '.gpg' is appended for a key that is not put into a directory.
new_full(w, old_plain, new_plain) ==
    IF ~isdir(w, old_plain) /\ ~(isdir(w, new_plain) \/ endswith_sep(new_plain))
    THEN with_gpg(new_plain) ELSE new_plain

\* What was written is left as it was copied.
written_as_is(w, new_path_full) == w

\* What was written is encrypted anew.
reencrypt_written(w, new_path_full) ==
    IF exists(w, new_path_full) THEN _reencrypt_path(w, new_path_full) ELSE w

\* shutil.rmtree(old_path_full, ignore_errors=True) of a move.
remove_moved(w, old_path_full, move) ==
    IF move /\ isdir(w, old_path_full) THEN rmtree_ignore_errors(w, old_path_full.p)
    ELSE w

\* The removal of old_path_full is committed on its own.
stage_moved_commit(w, old_path_full, move) ==
    IF move /\ ~exists(w, old_path_full)
    THEN _git_remove_path(w, old_path_full, Msg("", <<>>), TRUE, TRUE)
    ELSE w

\* A move stages the removal of old_path_full once it is gone.
stage_moved(w, old_path_full, move) ==
    IF move /\ ~exists(w, old_path_full)
    THEN _git_remove_path(w, old_path_full, Msg("", <<>>), TRUE, FALSE)
    ELSE w

\* _copy_move_path from the result cm of _copy_move on.
copy_move_commit(cm, old_path_full, message, move) ==
    IF cm.err # "ok" THEN Fail(cm.w, cm.err)
    ELSE Ok(_git_add_path(
                stage_moved(remove_moved(reencrypt_written(cm.w, cm.path),
                                         old_path_full, move),
                            old_path_full, move),
                cm.path, message),
            None)

\* _copy_move_path for the normalised paths.
copy_move_full(w, old_n, new_n, old_plain, new_plain, force, move) ==
    copy_move_commit(
        _copy_move(w, old_full(w, old_plain), new_full(w, old_plain, new_plain),
                   force, move),
        old_full(w, old_plain),
        Msg(IF move THEN "Rename" ELSE "Copy", <<old_n, new_n>>), move)

\* os.path.normpath raises TypeError for a path that is None; the normalised
\* '' is '.', so the store directory itself is joined as store_dir/'.'.
_copy_move_path(w, old_path, new_path, force, move) ==
    IF ~is_init(w) THEN Fail(w, NotInitialised)
    ELSE IF ~inside_store(old_path) THEN Fail(w, InvalidPath)
    ELSE IF ~inside_store(new_path) THEN Fail(w, InvalidPath)
    ELSE IF old_path = None \/ new_path = None THEN Fail(w, "TypeError")
    ELSE copy_move_full(w, normpath(old_path), normpath(new_path),
                        join_store(plain(dotted(normpath(old_path)))),
                        join_store(plain(dotted(normpath(new_path)))), force, move)

\* copy_path that passes move = True.
copy_path_moves(w, old_path, new_path, force) ==
    _copy_move_path(w, old_path, new_path, force, TRUE)

copy_path(w, old_path, new_path, force) ==
    _copy_move_path(w, old_path, new_path, force, FALSE)

\* move_path that passes move = False.
move_path_copies(w, old_path, new_path, force) ==
    _copy_move_path(w, old_path, new_path, force, FALSE)

move_path(w, old_path, new_path, force) ==
    _copy_move_path(w, old_path, new_path, force, TRUE)

(***************************************************************************)
(* Listing and searching.  Directory entries are compared as the strings   *)
(* they are: a name comes before the same name with '.gpg' appended, and   *)
(* names compare by NameOrder (the names of the modelled stores are ".",   *)
(* ".gpg-id", ".gitattributes", single letters and single letters after a  *)
(* '.').                                                                   *)
(***************************************************************************)
NameOrder == <<".", ".b", ".gitattributes", ".gpg-id", ".h", "a", "b", "c">>

rank(name) == CHOOSE i \in 1..Len(NameOrder) : NameOrder[i] = name

\* No name is taken to start with '.'.
startswith_none(name) == FALSE

\* The names that start with '.'.
startswith_dot(name) == name \in {".", "..", ".b", ".gitattributes", ".gpg-id", ".h"}

\* The order with the name that has '.gpg' appended put first.
entry_le_gpg(x, y) ==
    \/ rank(x.name) < rank(y.name)
    \/ (x.name = y.name /\ (x.gpg \/ ~y.gpg))

entry_le(x, y) ==
    \/ rank(x.name) < rank(y.name)
    \/ (x.name = y.name /\ (~x.gpg \/ y.gpg))

\* os.listdir(d)
listdir(w, d) ==
    {[name |-> Last(x), gpg |-> FALSE] : x \in {x \in w.dirs : x # <<>> /\ Front(x) = d}}
    \cup {[name |-> Last(k), gpg |-> TRUE] : k \in {k \in DOMAIN w.keys : Front(k) = d}}
    \cup (IF d \in DOMAIN w.gpgids THEN {[name |-> ".gpg-id", gpg |-> FALSE]} ELSE {})
    \cup {[name |-> Last(x), gpg |-> FALSE] : x \in {x \in DOMAIN w.files : Front(x) = d}}

RECURSIVE sorted(_)
sorted(S) ==
    IF S = {} THEN <<>>
    ELSE LET m == CHOOSE x \in S : \A y \in S : entry_le(x, y)
         IN  <<m>> \o sorted(S \ {m})

\* os.path.relpath(path, start) of absolute paths.
RECURSIVE common_len(_, _)
common_len(p, q) ==
    IF p = <<>> \/ q = <<>> \/ Head(p) # Head(q) THEN 0
    ELSE 1 + common_len(Tail(p), Tail(q))

relpath(path, start) ==
    LET p == normpath_abs(path)
        s == normpath_abs(start)
        c == common_len(p, s)
    IN  [i \in 1..(Len(s) - c) |-> ".."] \o SubSeq(p, c + 1, Len(p))

\* The path relative to the store, without the ending '.gpg'.
_get_store_name(f) == relpath(resolve(f).p, store_dir)

entry_path(path_dir, entry) == [p |-> Append(path_dir.p, entry.name), gpg |-> entry.gpg]

RECURSIVE names_of(_, _)
names_of(path_dir, entries) ==
    IF entries = <<>> THEN <<>>
    ELSE <<_get_store_name(entry_path(path_dir, Head(entries)))>>
         \o names_of(path_dir, Tail(entries))

\* os.path.normpath(path) raises TypeError for None, before the test of path
\* for None is reached.
list_dir(w, path) ==
    IF ~is_init(w) THEN Fail(w, NotInitialised)
    ELSE IF ~inside_store(path) THEN Fail(w, InvalidPath)
    ELSE IF path = None THEN Fail(w, "TypeError")
    ELSE LET path_dir == join_store(plain(normpath(path))) IN
         IF ~isdir(w, path_dir) THEN Fail(w, "FileNotFoundError")
         ELSE LET entries == SelectSeq(sorted(listdir(w, resolve(path_dir).p)),
                                       LAMBDA e : ~startswith_dot(e.name))
                  ds == SelectSeq(entries, LAMBDA e : isdir(w, entry_path(path_dir, e)))
                  ks == SelectSeq(entries, LAMBDA e :
                            ~isdir(w, entry_path(path_dir, e))
                            /\ isfile(w, entry_path(path_dir, e)) /\ e.gpg)
              IN  Ok(w, [dirs |-> names_of(path_dir, ds), keys |-> names_of(path_dir, ks)])

(***************************************************************************)
(* iter_dir is a generator function.  A call of it passes the decorators   *)
(* and returns a generator; the body runs when the caller asks for the     *)
(* next key, up to the next yield.  A generator is its state ("new": the   *)
(* body has not begun, "live": it is suspended at a yield, "done": it has  *)
(* returned or raised), the path it was called with, and the frames of the *)
(* nested calls of iter_dir under way, innermost last: each holds its      *)
(* directory and the entries, listed when the call began, still to visit.  *)
(***************************************************************************)
NoGen == [state |-> "none", path |-> <<>>, frames |-> <<>>]

Frame(path_dir, entries) == [path_dir |-> path_dir, entries |-> entries]

Yielded(frames, key) == [out |-> "yield", err |-> "ok", key |-> key, frames |-> frames]

Returned == [out |-> "return", err |-> "StopIteration", key |-> None, frames |-> <<>>]

Raised(err) == [out |-> "raise", err |-> err, key |-> None, frames |-> <<>>]

iter_dir(w, path) ==
    IF ~is_init(w) THEN Fail(w, NotInitialised)
    ELSE IF ~inside_store(path) THEN Fail(w, InvalidPath)
    ELSE Ok(w, [state |-> "new", path |-> path, frames |-> <<>>])

RECURSIVE iter_dir_loop(_, _)
RECURSIVE iter_dir_body(_, _, _)
\* yield from self.iter_dir(path): the call, then its body.
iter_dir_nested(w, frames, path) ==
    IF iter_dir(w, path).err # "ok" THEN Raised(iter_dir(w, path).err)
    ELSE iter_dir_body(w, frames, path)

\* One entry of the loop: the frames are those left once it is taken.
iter_dir_entry(w, frames, path_dir, entry) ==
    IF startswith_dot(entry.name) THEN iter_dir_loop(w, frames)
    ELSE IF isdir(w, entry_path(path_dir, entry))
    THEN iter_dir_nested(w, frames, relpath(entry_path(path_dir, entry).p, store_dir))
    ELSE IF entry.gpg
    THEN Yielded(frames, relpath(entry_path(path_dir, entry).p, store_dir))
    ELSE iter_dir_loop(w, frames)

\* The loop over the entries, from where the innermost frame is.
iter_dir_loop(w, frames) ==
    IF frames = <<>> THEN Returned
    ELSE IF Last(frames).entries = <<>> THEN iter_dir_loop(w, Front(frames))
    ELSE iter_dir_entry(w,
             Append(Front(frames),
                    Frame(Last(frames).path_dir, Tail(Last(frames).entries))),
             Last(frames).path_dir, Head(Last(frames).entries))

\* The body from its beginning: os.path.normpath(path) raises TypeError for
\* None, before the test of path for None is reached.
iter_dir_body(w, frames, path) ==
    IF path = None THEN Raised("TypeError")
    ELSE IF ~isdir(w, join_store(plain(normpath(path)))) THEN Raised("FileNotFoundError")
    ELSE iter_dir_loop(w,
             Append(frames,
                    Frame(join_store(plain(normpath(path))),
                          sorted(listdir(w, resolve(join_store(plain(normpath(path)))).p)))))

\* next(g): what the body does until it yields, returns or raises.
resume(w, g) ==
    IF g.state = "new" THEN iter_dir_body(w, <<>>, g.path)
    ELSE IF g.state = "live" THEN iter_dir_loop(w, g.frames)
    ELSE Returned

\* The generator after next(g) gave r.
resumed(g, r) ==
    [g EXCEPT !.state = IF r.out = "yield" THEN "live" ELSE "done", !.frames = r.frames]

\* list(g) with no other call in between.
RECURSIVE list_gen(_, _, _)
list_gen(w, g, ks) ==
    LET r == resume(w, g)
    IN  IF r.out = "yield" THEN list_gen(w, resumed(g, r), Append(ks, r.key))
        ELSE IF r.out = "return" THEN Ok(w, ks)
        ELSE Fail(w, r.err)

\* list(self.iter_dir(path))
list_iter_dir(w, path) ==
    IF iter_dir(w, path).err # "ok" THEN iter_dir(w, path)
    ELSE list_gen(w, iter_dir(w, path).ret, <<>>)

\* list(self): Store.__iter__ is iter_dir('').
list_iter(w) == list_iter_dir(w, <<>>)

\* The characters of a key's name: its components joined by '/'.
chars_of(name) == join_lines("/", [i \in 1..Len(name) |-> <<name[i]>>])

\* str.startswith(t)
contains_at_start(s, t) == Len(t) <= Len(s) /\ SubSeq(s, 1, Len(t)) = t

\* str.find(t) != -1
contains(s, t) == \E i \in 0..(Len(s) - Len(t)) : SubSeq(s, i + 1, i + Len(t)) = t

find(w, names) ==
    IF ~is_init(w) THEN Fail(w, NotInitialised)
    ELSE IF names = None THEN Ok(w, <<>>)
    ELSE LET it == list_iter(w) IN
         IF it.err # "ok" THEN it
         ELSE Ok(w, SelectSeq(it.ret, LAMBDA key :
                        \E i \in 1..Len(names) : contains(chars_of(key), names[i])))

(***************************************************************************)
(* re: the regular expressions that are written with literal characters,   *)
(* '.', '^', '$', '|', the repeats '*', '+', '?' and '{m,n}' (lazy ones    *)
(* too), character sets, the groups '(...)' and '(?:...)', escaped         *)
(* punctuation and \d \D \s \S \w \W, over the characters of Chars.  For   *)
(* the rest of the syntax of re, for other characters and for repeat       *)
(* counts of ten digits below MAXREPEAT, the outcome is "unsupported".  A  *)
(* compiled                                                                *)
(* expression is a tree of nodes; to match is to collect the positions at  *)
(* which a match that begins at one of the given positions of the string   *)
(* can end (position i is after the first i characters).                   *)
(***************************************************************************)
\* The characters 32 to 95 and 97 to 126 of ASCII.
AsciiLow ==
    <<" ", "!", "\"", "#", "$", "%", "&", "'", "(", ")", "*", "+", ",", "-", ".", "/",
      "0", "1", "2", "3", "4", "5", "6", "7", "8", "9", ":", ";", "<", "=", ">", "?",
      "@", "A", "B", "C", "D", "E", "F", "G", "H", "I", "J", "K", "L", "M", "N", "O",
      "P", "Q", "R", "S", "T", "U", "V", "W", "X", "Y", "Z", "[", "\\", "]", "^", "_">>

AsciiHigh ==
    <<"a", "b", "c", "d", "e", "f", "g", "h", "i", "j", "k", "l", "m", "n", "o", "p",
      "q", "r", "s", "t", "u", "v", "w", "x", "y", "z", "{", "|", "}", "~">>

\* The characters 9, 10, 12 and 13.
AsciiControl == <<"\t", "\n", "\f", "\r">>

AsciiControlCodes == <<9, 10, 12, 13>>

\* The characters the model knows the code points of.
Chars ==
    {AsciiControl[n] : n \in 1..Len(AsciiControl)}
    \cup {AsciiLow[n] : n \in 1..Len(AsciiLow)}
    \cup {AsciiHigh[n] : n \in 1..Len(AsciiHigh)}

\* Whether every character of the string is one of Chars.
known(s) == \A i \in 1..Len(s) : s[i] \in Chars

\* ord(c) of a character of Chars; of another character nothing is said.
ord(c) ==
    IF \E n \in 1..Len(AsciiControl) : AsciiControl[n] = c
    THEN AsciiControlCodes[CHOOSE n \in 1..Len(AsciiControl) : AsciiControl[n] = c]
    ELSE IF \E n \in 1..Len(AsciiLow) : AsciiLow[n] = c
    THEN 31 + (CHOOSE n \in 1..Len(AsciiLow) : AsciiLow[n] = c)
    ELSE 96 + (CHOOSE n \in 1..Len(AsciiHigh) : AsciiHigh[n] = c)

isdigit(c) == c \in Chars /\ ord(c) \in 48..57

isalpha(c) == c \in Chars /\ ord(c) \in (65..90) \cup (97..122)

\* The character of the pattern at position i, "" past its end.
At(p, i) == IF i <= Len(p) THEN p[i] ELSE ""

\* MAXREPEAT
Inf == -1

RE(t) == [t |-> t, c |-> "", neg |-> FALSE, items |-> <<>>, kids |-> <<>>,
          min |-> 0, max |-> 0]

Lit(c) == [RE("lit") EXCEPT !.c = c]

CharSet(neg, items) == [RE("set") EXCEPT !.neg = neg, !.items = items]

Group(kid) == [RE("group") EXCEPT !.kids = <<kid>>]

Rep(kid, min, max) == [RE("rep") EXCEPT !.kids = <<kid>>, !.min = min, !.max = max]

\* An item of a character set: a range of characters or a category.
Range(lo, hi) == [cat |-> "", lo |-> lo, hi |-> hi]

Category(cat) == [cat |-> cat, lo |-> 0, hi |-> 0]

\* The result of parsing: the node and the position after it.
Parsed(node, i) == [err |-> "ok", node |-> node, i |-> i]

\* re.error
BadPattern == [err |-> "error", node |-> RE("none"), i |-> 0]

Unsupported == [err |-> "unsupported", node |-> RE("none"), i |-> 0]

\* An escape, outside a set (as an expression) or inside one (as an item).
re_escape(p, i, in_set) ==
    IF At(p, i + 1) = "" THEN BadPattern
    ELSE IF At(p, i + 1) \in {"d", "D", "s", "S", "w", "W"}
    THEN Parsed(IF in_set THEN Category(At(p, i + 1))
                ELSE CharSet(FALSE, <<Category(At(p, i + 1))>>), i + 2)
    ELSE IF isdigit(At(p, i + 1))
            \/ At(p, i + 1) \in {"a", "b", "f", "n", "r", "t", "v", "x", "u", "U", "N"}
            \/ (~in_set /\ At(p, i + 1) \in {"A", "B", "Z"})
    THEN Unsupported
    ELSE IF isalpha(At(p, i + 1)) THEN BadPattern
    ELSE Parsed(IF in_set THEN Range(ord(At(p, i + 1)), ord(At(p, i + 1)))
                ELSE Lit(At(p, i + 1)), i + 2)

\* One character or escape of a set.
re_set_code(p, i) ==
    IF At(p, i) = "\\" THEN re_escape(p, i, TRUE)
    ELSE Parsed(Range(ord(At(p, i)), ord(At(p, i))), i + 1)

\* The set from position i on; the items are those before it.
RECURSIVE re_set_items(_, _, _, _)
re_set_range(p, neg, items, c1, c2) ==
    IF c2.err # "ok" THEN c2
    ELSE IF c1.node.cat # "" \/ c2.node.cat # "" \/ c2.node.lo < c1.node.lo THEN BadPattern
    ELSE re_set_items(p, c2.i, neg, Append(items, Range(c1.node.lo, c2.node.lo)))

re_set_item(p, neg, items, c1) ==
    IF c1.err # "ok" THEN c1
    ELSE IF At(p, c1.i) # "-" THEN re_set_items(p, c1.i, neg, Append(items, c1.node))
    ELSE IF At(p, c1.i + 1) = "" THEN BadPattern
    ELSE IF At(p, c1.i + 1) = "]"
    THEN Parsed(CharSet(neg, items \o <<c1.node, Range(ord("-"), ord("-"))>>), c1.i + 2)
    ELSE re_set_range(p, neg, items, c1, re_set_code(p, c1.i + 1))

re_set_items(p, i, neg, items) ==
    IF At(p, i) = "" THEN BadPattern
    ELSE IF At(p, i) = "]" /\ items # <<>> THEN Parsed(CharSet(neg, items), i + 1)
    ELSE re_set_item(p, neg, items, re_set_code(p, i))

\* The set whose '[' is at position i.
re_set(p, i) ==
    IF At(p, i + 1) = "^" THEN re_set_items(p, i + 2, TRUE, <<>>)
    ELSE re_set_items(p, i + 1, FALSE, <<>>)

\* The position after the digits from position i on.
RECURSIVE re_digits(_, _)
re_digits(p, i) == IF isdigit(At(p, i)) THEN re_digits(p, i + 1) ELSE i

\* The position of the first of the digits at positions i to j - 1 that is
\* not '0', j when there is none.
RECURSIVE re_nonzero(_, _, _)
re_nonzero(p, i, j) == IF i < j /\ p[i] = "0" THEN re_nonzero(p, i + 1, j) ELSE i

\* The digits of MAXREPEAT, 4294967295.
MaxRepeatDigits == <<"4", "2", "9", "4", "9", "6", "7", "2", "9", "5">>

\* Whether the number of the ten digits d is below MAXREPEAT.
below_maxrepeat(d) ==
    \E k \in 1..10 :
        /\ \A j \in 1..(k - 1) : d[j] = MaxRepeatDigits[j]
        /\ ord(d[k]) < ord(MaxRepeatDigits[k])

\* How large int of the digits at positions i to j - 1 is: "int" when it
\* has at most nine digits, "long" when it has ten and is below MAXREPEAT,
\* "overflow" from MAXREPEAT on.
re_size(p, i, j) ==
    IF j - re_nonzero(p, i, j) <= 9 THEN "int"
    ELSE IF j - re_nonzero(p, i, j) = 10 /\ below_maxrepeat(SubSeq(p, re_nonzero(p, i, j), j - 1))
    THEN "long"
    ELSE "overflow"

\* int of the digits at positions i to j - 1, at most nine without the
\* zeros before them.
RECURSIVE re_int(_, _, _)
re_int(p, i, j) ==
    IF j <= i THEN 0 ELSE 10 * re_int(p, i, j - 1) + (ord(p[j - 1]) - 48)

\* min = int(lo) and max = int(hi) of the repeat '{lo,hi}': OverflowError
\* from MAXREPEAT on, re.error for max < min.
re_brace_err(p, lo, lo_end, hi, hi_end) ==
    IF re_size(p, lo, lo_end) = "overflow" \/ re_size(p, hi, hi_end) = "overflow"
    THEN "OverflowError"
    ELSE IF hi < hi_end /\ re_size(p, lo, lo_end) = "long" /\ re_size(p, hi, hi_end) = "int"
    THEN "error"
    ELSE IF re_size(p, lo, lo_end) = "long" \/ re_size(p, hi, hi_end) = "long"
    THEN "unsupported"
    ELSE IF hi < hi_end /\ re_int(p, hi, hi_end) < re_int(p, lo, lo_end) THEN "error"
    ELSE "ok"

\* The repeat '{m,n}' whose '{' is at position i, lo_end and hi_end being the
\* positions after the digits of m and after those of n.
re_brace_at(p, i, lo_end, comma, hi_end) ==
    IF At(p, hi_end) # "}" THEN [rep |-> FALSE, err |-> "ok", min |-> 0, max |-> 0, i |-> i]
    ELSE IF re_brace_err(p, i + 1, lo_end, IF comma THEN lo_end + 1 ELSE hi_end, hi_end) # "ok"
    THEN [rep |-> TRUE,
          err |-> re_brace_err(p, i + 1, lo_end, IF comma THEN lo_end + 1 ELSE hi_end, hi_end),
          min |-> 0, max |-> 0, i |-> hi_end + 1]
    ELSE LET min == IF lo_end > i + 1 THEN re_int(p, i + 1, lo_end) ELSE 0
             max == IF ~comma THEN min
                    ELSE IF hi_end > lo_end + 1 THEN re_int(p, lo_end + 1, hi_end)
                    ELSE Inf
         IN  [rep |-> TRUE, err |-> "ok", min |-> min, max |-> max, i |-> hi_end + 1]

\* Whether the '{' at position i begins a repeat, and the repeat.
re_brace(p, i) ==
    IF At(p, i + 1) = "}" THEN [rep |-> FALSE, err |-> "ok", min |-> 0, max |-> 0, i |-> i]
    ELSE IF At(p, re_digits(p, i + 1)) = ","
    THEN re_brace_at(p, i, re_digits(p, i + 1), TRUE,
                     re_digits(p, re_digits(p, i + 1) + 1))
    ELSE re_brace_at(p, i, re_digits(p, i + 1), FALSE, re_digits(p, i + 1))

RECURSIVE re_parse_sub(_, _)
RECURSIVE re_parse(_, _, _)
\* The group whose '(' is before position i, r being what was parsed inside.
re_group_end(p, r) ==
    IF r.err # "ok" THEN r
    ELSE IF At(p, r.i) # ")" THEN BadPattern
    ELSE Parsed(Group(r.node), r.i + 1)

re_group(p, i) ==
    IF At(p, i + 1) # "?" THEN re_group_end(p, re_parse_sub(p, i + 1))
    ELSE IF At(p, i + 2) = ":" THEN re_group_end(p, re_parse_sub(p, i + 3))
    ELSE Unsupported

\* What is at position i and is no repeat.
re_atom(p, i) ==
    IF At(p, i) = "\\" THEN re_escape(p, i, FALSE)
    ELSE IF At(p, i) = "." THEN Parsed(RE("any"), i + 1)
    ELSE IF At(p, i) = "^" THEN Parsed(RE("bol"), i + 1)
    ELSE IF At(p, i) = "$" THEN Parsed(RE("eol"), i + 1)
    ELSE IF At(p, i) = "[" THEN re_set(p, i)
    ELSE IF At(p, i) = "(" THEN re_group(p, i)
    ELSE Parsed(Lit(At(p, i)), i + 1)

\* A repeat of the last of the items, i being the position after it.
re_repeat(p, i, items, min, max) ==
    IF items = <<>> \/ Last(items).t \in {"bol", "eol"} THEN BadPattern
    ELSE IF Last(items).t = "rep" THEN BadPattern
    ELSE IF At(p, i) = "+" THEN Unsupported
    ELSE re_parse(p, IF At(p, i) = "?" THEN i + 1 ELSE i,
                  Append(Front(items), Rep(Last(items), min, max)))

re_braces(p, items, b) ==
    IF b.err # "ok" THEN [BadPattern EXCEPT !.err = b.err]
    ELSE re_repeat(p, b.i, items, b.min, b.max)

re_item(p, items, a) ==
    IF a.err # "ok" THEN a ELSE re_parse(p, a.i, Append(items, a.node))

\* _parse: the items of one branch, from position i on.
re_parse(p, i, items) ==
    IF At(p, i) \in {"", "|", ")"} THEN Parsed([RE("cat") EXCEPT !.kids = items], i)
    ELSE IF At(p, i) = "*" THEN re_repeat(p, i + 1, items, 0, Inf)
    ELSE IF At(p, i) = "+" THEN re_repeat(p, i + 1, items, 1, Inf)
    ELSE IF At(p, i) = "?" THEN re_repeat(p, i + 1, items, 0, 1)
    ELSE IF At(p, i) = "{" /\ re_brace(p, i).rep THEN re_braces(p, items, re_brace(p, i))
    ELSE re_item(p, items, re_atom(p, i))

\* _parse_sub: the branches from position i on.
RECURSIVE re_branches(_, _, _)
re_branch(p, alts, r) ==
    IF r.err # "ok" THEN r
    ELSE IF At(p, r.i) = "|" THEN re_branches(p, r.i + 1, Append(alts, r.node))
    ELSE Parsed([RE("alt") EXCEPT !.kids = Append(alts, r.node)], r.i)

re_branches(p, i, alts) == re_branch(p, alts, re_parse(p, i, <<>>))

re_parse_sub(p, i) == re_branches(p, i, <<>>)

\* re.compile(term)
re_compiled(term, r) ==
    IF r.err = "ok" /\ r.i <= Len(term) THEN BadPattern ELSE r

re_compile(term) ==
    IF ~known(term) THEN Unsupported ELSE re_compiled(term, re_parse_sub(term, 1))

in_category(c, cat) ==
    IF cat = "d" THEN isdigit(c)
    ELSE IF cat = "D" THEN ~isdigit(c)
    ELSE IF cat = "s" THEN ord(c) \in (9..13) \cup (28..32)
    ELSE IF cat = "S" THEN ord(c) \notin (9..13) \cup (28..32)
    ELSE IF cat = "w" THEN isdigit(c) \/ isalpha(c) \/ c = "_"
    ELSE ~(isdigit(c) \/ isalpha(c) \/ c = "_")

in_set(c, node) ==
    node.neg # (\E k \in 1..Len(node.items) :
                   IF node.items[k].cat # "" THEN in_category(c, node.items[k].cat)
                   ELSE ord(c) \in node.items[k].lo..node.items[k].hi)

\* The positions at which a match of the node that begins in S can end.
RECURSIVE regex_ends(_, _, _)
RECURSIVE regex_seq(_, _, _)
regex_seq(kids, s, S) ==
    IF kids = <<>> \/ S = {} THEN S
    ELSE regex_seq(Tail(kids), s, regex_ends(Head(kids), s, S))

\* Any number of matches of kid, one after the other.
RECURSIVE regex_closure(_, _, _, _)
regex_closure(kid, s, done, new) ==
    IF new = {} THEN done
    ELSE regex_closure(kid, s, done \cup new, regex_ends(kid, s, new) \ (done \cup new))

RECURSIVE regex_rep(_, _, _, _, _)
regex_rep(kid, min, max, s, S) ==
    IF S = {} THEN S
    ELSE IF min > 0
    THEN regex_rep(kid, min - 1, IF max = Inf THEN Inf ELSE max - 1, s,
                   regex_ends(kid, s, S))
    ELSE IF max = 0 THEN S
    ELSE IF max = Inf THEN regex_closure(kid, s, {}, S)
    ELSE S \cup regex_rep(kid, 0, max - 1, s, regex_ends(kid, s, S))

regex_ends(node, s, S) ==
    IF node.t = "lit" THEN {i + 1 : i \in {i \in S : i < Len(s) /\ s[i + 1] = node.c}}
    ELSE IF node.t = "any" THEN {i + 1 : i \in {i \in S : i < Len(s) /\ s[i + 1] # "\n"}}
    ELSE IF node.t = "set"
    THEN {i + 1 : i \in {i \in S : i < Len(s) /\ in_set(s[i + 1], node)}}
    ELSE IF node.t = "bol" THEN S \cap {0}
    ELSE IF node.t = "eol"
    THEN {i \in S : i = Len(s) \/ (i = Len(s) - 1 /\ s[Len(s)] = "\n")}
    ELSE IF node.t = "cat" THEN regex_seq(node.kids, s, S)
    ELSE IF node.t = "alt"
    THEN UNION {regex_ends(node.kids[k], s, S) : k \in 1..Len(node.kids)}
    ELSE IF node.t = "group" THEN regex_ends(node.kids[1], s, S)
    ELSE regex_rep(node.kids[1], node.min, node.max, s, S)

\* regex.search(line) is not None
regex_search(node, line) == regex_ends(node, line, 0..Len(line)) # {}

\* The matches of one key: its name and its lines that the term matches.
matches_of(w, key, term) ==
    [key |-> key,
     lines |-> SelectSeq(split(get_key(w, key).ret, NL),
                         LAMBDA line : regex_search(re_compile(term).node, line))]

RECURSIVE search_keys(_, _, _)
search_keys(w, ks, term) ==
    IF ks = <<>> THEN <<>>
    ELSE LET m == matches_of(w, Head(ks), term)
         IN  (IF m.lines = <<>> THEN <<>> ELSE <<m>>) \o search_keys(w, Tail(ks), term)

search(w, term) ==
    IF ~is_init(w) THEN Fail(w, NotInitialised)
    ELSE IF term = None THEN Ok(w, <<>>)
    ELSE IF re_compile(term).err # "ok" THEN Fail(w, re_compile(term).err)
    ELSE LET it == list_iter(w) IN
         IF it.err # "ok" THEN it
         ELSE IF \E i \in 1..Len(it.ret) : ~known(get_key(w, it.ret[i]).ret)
         THEN Fail(w, "unsupported")
         ELSE Ok(w, search_keys(w, it.ret, term))

(***************************************************************************)
(* The stores a run starts from, and the arguments of the calls            *)
(***************************************************************************)
A == <<"A">>

Blob(data, rcpt) == [data |-> data, rcpt |-> rcpt]

\* A store with a repository that has no commit yet.
World(d, k, g) ==
    [dirs |-> d, keys |-> k, gpgids |-> g, files |-> EmptyMap, repo |-> TRUE,
     config |-> <<>>, staged |-> <<>>, hist |-> <<>>]

\* No store directory yet.
NoStore == World({<<>>}, EmptyMap, EmptyMap)

\* init_store(['A']) only.
FreshStore == World({<<>>, <<"s">>}, EmptyMap, [g \in {<<"s">>} |-> A])

\* A key a and a directory a that holds the key a/b.
FlatStore ==
    World({<<>>, <<"s">>, <<"s", "a">>},
          [k \in {<<"s", "a">>, <<"s", "a", "b">>} |->
              IF k = <<"s", "a">> THEN Blob(<<"o", NL, "m", NL, "n">>, A)
              ELSE Blob(<<"z">>, A)],
          [g \in {<<"s">>} |-> A])

\* A key a, and a directory b with gpg id B that holds the key b/a.
ScopedStore ==
    World({<<>>, <<"s">>, <<"s", "b">>},
          [k \in {<<"s", "a">>, <<"s", "b", "a">>} |->
              IF k = <<"s", "a">> THEN Blob(<<"x">>, A)
              ELSE Blob(<<"y", NL>>, <<"B">>)],
          [g \in {<<"s">>, <<"s", "b">>} |-> IF g = <<"s">> THEN A ELSE <<"B">>])

\* init_store(['B'], 'b') only: a scope below a store that has none itself.
SubStore == World({<<>>, <<"s">>, <<"s", "b">>}, EmptyMap, [g \in {<<"s", "b">>} |-> <<"B">>])

\* A key b, a hidden key .b, a hidden directory .h that holds the key .h/a,
\* and a file c that is no key file.
HiddenStore ==
    [World({<<>>, <<"s">>, <<"s", ".h">>},
          [k \in {<<"s", "b">>, <<"s", ".b">>, <<"s", ".h", "a">>} |->
              IF k = <<"s", "b">> THEN Blob(<<"z">>, A)
              ELSE IF k = <<"s", ".b">> THEN Blob(<<"x">>, A)
              ELSE Blob(<<"y">>, A)],
          [g \in {<<"s">>} |-> A])
        EXCEPT !.files = Put(@, <<"s", "c">>, <<"t">>)]

\* The store with the key a and the directory a, without a repository.
UntrackedStore == [FlatStore EXCEPT !.repo = FALSE]

InitialWorlds ==
    {NoStore, FreshStore, FlatStore, ScopedStore, SubStore, HiddenStore, UntrackedStore}

RawPaths == {<<>>, <<"a">>, <<"b", "">>, <<"a", ".", "b">>, <<"a", "..", "..", "a">>}

IdLists == {<<>>, <<"B">>, <<"B", "A">>}

Data == {<<"x", NL, "y">>, <<"z">>}

Lengths == {1}

NameLists == {<<<<"a">>>>, <<<<"b">>, <<"a", "/">>>>}

\* The terms of search: a literal, a set at the end of the line, and a
\* repeat of nothing, which is no regular expression.
Terms == {<<"x">>, <<"[", "m", "z", "]", "$">>, <<"*">>}

(***************************************************************************)
(* The state machine: one action per method of Store, and one for the      *)
(* caller's next on the generator it holds                                 *)
(***************************************************************************)
W == [dirs |-> dirs, keys |-> keys, gpgids |-> gpgids, files |-> files, repo |-> repo,
      config |-> config, staged |-> staged, hist |-> hist]

NoCall ==
    [op |-> "none", gpg_ids |-> <<>>, path |-> <<>>, new_path |-> <<>>, data |-> <<>>,
     length |-> 0, symbols |-> FALSE, force |-> FALSE, recursive |-> FALSE,
     inplace |-> FALSE, cwd_nondir |-> FALSE, names |-> <<>>,
     err |-> "ok", changed |-> TRUE, ret |-> None, ret_dirs |-> <<>>, ret_keys |-> <<>>, ret_found |-> <<>>]

\* Nothing walked: the keys the generator has yielded, and whether the store
\* was changed since iter_dir was called.
NoWalk == [yielded |-> <<>>, disturbed |-> FALSE]

\* The store after a call, and the call with its outcome.
Return(o, call) ==
    /\ dirs' = o.w.dirs
    /\ keys' = o.w.keys
    /\ gpgids' = o.w.gpgids
    /\ files' = o.w.files
    /\ repo' = o.w.repo
    /\ config' = o.w.config
    /\ staged' = o.w.staged
    /\ hist' = o.w.hist
    /\ unlogged' = IF ~o.w.repo /\ o.w # W THEN unlogged + 1 ELSE unlogged
    /\ last' = [call EXCEPT !.err = o.err, !.changed = (o.w # W)]

\* A call that left the store and its history as they were ends a run: the calls
\* after it would meet the same store the calls before it met.
Record(o, call) == last.changed /\ Return(o, call)

\* A call of a method that writes is made while the log is short; it may be
\* made while a walk is under way, as the first change of the run.
Do(o, call) ==
    /\ Len(hist) + unlogged < MaxHist
    /\ gen.state \in {"new", "live"} => Len(hist) + unlogged = 0
    /\ Record(o, call)
    /\ gen' = gen
    /\ walked' = [walked EXCEPT
                     !.disturbed = @ \/ (gen.state \in {"new", "live"} /\ o.w # W)]

\* A call of a method that only reads is made while no walk is under way.
Read(o, call) ==
    /\ gen.state = "none"
    /\ Record(o, call)
    /\ UNCHANGED <<gen, walked>>

Init ==
    /\ \E w \in InitialWorlds :
          /\ dirs = w.dirs
          /\ keys = w.keys
          /\ gpgids = w.gpgids
          /\ files = w.files
          /\ repo = w.repo
          /\ config = w.config
          /\ staged = w.staged
          /\ hist = w.hist
    /\ unlogged = 0
    /\ gen = NoGen
    /\ walked = NoWalk
    /\ last = NoCall

InitStore ==
    \E gpg_ids \in IdLists, path \in RawPaths \cup {None, <<"..", "s">>},
       cwd_nondir \in BOOLEAN :
        /\ cwd_nondir => (path # None /\ normpath(path) # <<>>)
        /\ Do(init_store(W, gpg_ids, path, cwd_nondir),
              [NoCall EXCEPT !.op = "init_store", !.gpg_ids = gpg_ids, !.path = path,
                             !.cwd_nondir = cwd_nondir])

InitGit == Do(init_git(W), [NoCall EXCEPT !.op = "init_git"])

GetKey ==
    \E path \in RawPaths :
        LET o == get_key(W, path)
        IN  Read(o, [NoCall EXCEPT !.op = "get_key", !.path = path, !.ret = o.ret])

SetKey ==
    \E path \in RawPaths \cup {<<".gpg-id", "a">>}, key_data \in Data, force \in BOOLEAN :
        Do(set_key(W, path, key_data, force),
           [NoCall EXCEPT !.op = "set_key", !.path = path, !.data = key_data,
                          !.force = force])

RemovePath ==
    \E path \in RawPaths, recursive \in BOOLEAN :
        Do(remove_path(W, path, recursive),
           [NoCall EXCEPT !.op = "remove_path", !.path = path, !.recursive = recursive])

GenKey ==
    \E path \in RawPaths \cup {<<".gpg-id", "a">>, <<".gpg-id", "a", "b">>}, length \in Lengths, symbols, force, inplace \in BOOLEAN :
        \E password \in _gen_password(length, symbols) :
            LET o == gen_key(W, path, length, symbols, force, inplace, password)
            IN  Do(o, [NoCall EXCEPT !.op = "gen_key", !.path = path, !.length = length,
                                     !.symbols = symbols, !.force = force,
                                     !.inplace = inplace, !.ret = o.ret])

CopyPath ==
    \E old_path, new_path \in RawPaths \ {<<>>}, force \in BOOLEAN :
        Do(copy_path(W, old_path, new_path, force),
           [NoCall EXCEPT !.op = "copy_path", !.path = old_path, !.new_path = new_path,
                          !.force = force])

MovePath ==
    \E old_path, new_path \in RawPaths \ {<<>>}, force \in BOOLEAN :
        Do(move_path(W, old_path, new_path, force),
           [NoCall EXCEPT !.op = "move_path", !.path = old_path, !.new_path = new_path,
                          !.force = force])

ListDir ==
    \E path \in RawPaths \cup {None} :
        LET o == list_dir(W, path)
        IN  Read(o, [NoCall EXCEPT !.op = "list_dir", !.path = path,
                       !.ret_dirs = IF o.err = "ok" THEN o.ret.dirs ELSE <<>>,
                       !.ret_keys = IF o.err = "ok" THEN o.ret.keys ELSE <<>>])

\* The call of iter_dir: the caller gets a generator.  The call is made when
\* the caller holds none.
IterDir ==
    \E path \in RawPaths \cup {<<"..", "s", "a">>} :
        /\ last.changed
        /\ gen.state = "none"
        /\ LET o == iter_dir(W, path)
           IN  /\ gen' = IF o.err = "ok" THEN o.ret ELSE gen
               /\ walked' = IF o.err = "ok" THEN NoWalk ELSE walked
               /\ last' = [NoCall EXCEPT !.op = "iter_dir", !.path = path,
                                         !.err = o.err, !.changed = (o.err = "ok")]
        /\ UNCHANGED <<dirs, keys, gpgids, files, repo, config, staged, hist, unlogged>>

\* next(g) on the generator the caller holds: the body of iter_dir runs on
\* the store as it is now, until it yields a key, returns or raises.
NextKey ==
    /\ last.changed
    /\ gen.state \in {"new", "live"}
    /\ LET r == resume(W, gen)
       IN  /\ gen' = resumed(gen, r)
           /\ walked' = [walked EXCEPT !.yielded = IF r.out = "yield"
                                                    THEN Append(@, r.key) ELSE @]
           /\ last' = [NoCall EXCEPT !.op = "next", !.path = gen.path, !.err = r.err,
                                     !.ret = r.key, !.changed = (r.out = "yield")]
    /\ UNCHANGED <<dirs, keys, gpgids, files, repo, config, staged, hist, unlogged>>

Find ==
    \E names \in NameLists :
        LET o == find(W, names)
        IN  Read(o, [NoCall EXCEPT !.op = "find", !.names = names,
                       !.ret_keys = IF o.err = "ok" THEN o.ret ELSE <<>>])

Search ==
    \E term \in Terms :
        LET o == search(W, term)
        IN  Read(o, [NoCall EXCEPT !.op = "search", !.data = term,
                       !.ret_found = IF o.err = "ok" THEN o.ret ELSE <<>>])

Next ==
    \/ InitStore
    \/ InitGit
    \/ GetKey
    \/ SetKey
    \/ RemovePath
    \/ GenKey
    \/ CopyPath
    \/ MovePath
    \/ ListDir
    \/ IterDir
    \/ NextKey
    \/ Find
    \/ Search

Spec == Init /\ [][Next]_vars

(***************************************************************************)
(* Properties.  They speak of the store through the variables and through  *)
(* get_key; a step is identified by the call it records in last'.          *)
(***************************************************************************)
\* Whether the call's path, taken relative to the store, leaves the store.
Escapes(path) ==
    path # None /\ ~IsPrefix(store_dir, normpath_abs(store_dir \o path))

RootScoped == store_dir \in DOMAIN gpgids

\* The content get(name) returns, or None when it fails.
Content(w, name) == LET g == get_key(w, name) IN IF g.err = "ok" THEN g.ret ELSE None

Present(w, name) == name # <<>> /\ get_key(w, name).err = "ok"

\* The directory a call's path names.
DirOf(path) == IF path = None THEN store_dir ELSE normpath_abs(store_dir \o path)

\* Whether a parent of the name is a file of the store (a scope file, say),
\* under which no directory can be made.
UnderFile(path) ==
    \E i \in 1..(Len(normpath(path)) - 1) :
        file_at(W, plain(store_dir \o SubSeq(normpath(path), 1, i)))

\* C1: after a successful set(name, c) of a non-empty name, get(name) returns c.
C1_RoundTrip ==
    (last.op = "set_key" /\ last.err = "ok" /\ last.path # <<>>)
        => (get_key(W, last.path).err = "ok" /\ get_key(W, last.path).ret = last.data)

C1_Witness ==
    /\ last.op = "set_key" /\ last.err = "ok"
    /\ last.path = <<"a", ".", "b">> /\ last.data = <<"x", NL, "y">>
    /\ <<"s", "a", "b">> \in DOMAIN keys
    /\ keys[<<"s", "a", "b">>].data = <<"x", NL, "y">>

\* C2: set on a present name fails with AlreadyExistsError without force and
\* leaves the content; with force it succeeds and get returns the new content.
C2_SetConflict ==
    [][(last'.op = "set_key" /\ Present(W, last'.path))
        => IF last'.force
           THEN last'.err = "ok" /\ Content(W', last'.path) = last'.data
           ELSE last'.err = AlreadyExistsError
                /\ Content(W', last'.path) = Content(W, last'.path)]_vars

C2_Witness ==
    /\ last.op = "set_key" /\ last.force /\ last.err = "ok"
    /\ last.path = <<"a">> /\ last.data = <<"z">>
    /\ <<"s", "a", "b">> \in DOMAIN keys
    /\ keys[<<"s", "a">>].data = <<"z">>

\* The part of a path below the directory d.
Below(k, d) == SubSeq(k, Len(d) + 1, Len(k))

\* The keys in the subtree of directory d.
KeysUnder(d) == {k \in DOMAIN keys : IsPrefix(d, Front(k))}

\* C3 as claimed: after a successful move(a, b), a present secret a is gone
\* and b has its content; the secrets of a directory a are at the same names
\* below b and no longer below a.
C3_MoveAsClaimed ==
    [][(last'.op = "move_path" /\ last'.err = "ok")
        => LET a == last'.path
               b == last'.new_path
           IN  /\ Present(W, a)
                    => /\ get_key(W', a).err = NotFoundError
                       /\ Content(W', b) = Content(W, a)
               /\ DirOf(a) \in dirs
                    => \A k \in KeysUnder(DirOf(a)) :
                          /\ Content(W', normpath(b) \o Below(k, DirOf(a)))
                                = keys[k].data
                          /\ ~Present(W', normpath(a) \o Below(k, DirOf(a)))]_vars

\* C3 amended: the first part holds when a is not also a directory and b is
\* neither an existing directory nor a itself.
C3_Move ==
    [][(last'.op = "move_path" /\ last'.err = "ok")
        => LET a == last'.path
               b == last'.new_path
           IN  /\ (/\ Present(W, a)
                   /\ DirOf(a) \notin dirs
                   /\ DirOf(b) \notin dirs
                   /\ DirOf(a) # DirOf(b))
                    => /\ get_key(W', a).err = NotFoundError
                       /\ Content(W', b) = Content(W, a)
               /\ DirOf(a) \in dirs
                    => \A k \in KeysUnder(DirOf(a)) :
                          /\ Content(W', normpath(b) \o Below(k, DirOf(a)))
                                = keys[k].data
                          /\ ~Present(W', normpath(a) \o Below(k, DirOf(a)))]_vars

\* The key a of the scoped store was moved to a/b, and a directory a made for it.
C3_Witness ==
    /\ last.op = "move_path" /\ last.err = "ok"
    /\ last.path = <<"a">> /\ last.new_path = <<"a", ".", "b">>
    /\ DOMAIN keys = {<<"s", "b", "a">>, <<"s", "a", "b">>}
    /\ keys[<<"s", "a", "b">>].data = <<"x">>

\* The gpg ids of the nearest .gpg-id file at or above directory d.
Nearest(d) ==
    LET ns == {n \in 0..Len(d) : SubSeq(d, 1, n) \in DOMAIN gpgids}
    IN  IF ns = {} THEN <<>>
        ELSE gpgids[SubSeq(d, 1, CHOOSE n \in ns : \A m \in ns : m <= n)]

\* C4: every key file is encrypted to exactly the gpg ids of the nearest
\* .gpg-id file at or above its directory.
C4_EffectiveIds == \A k \in DOMAIN keys : keys[k].rcpt = Nearest(Front(k))

\* The key a, encrypted to A, was copied over b/a below the scope B.
C4_Witness ==
    /\ last.op = "copy_path" /\ last.err = "ok"
    /\ <<"s", "b", "a">> \in DOMAIN keys
    /\ keys[<<"s", "b", "a">>] = Blob(<<"x">>, <<"B">>)
    /\ keys[<<"s", "a">>] = Blob(<<"x">>, A)

\* C5 as claimed: setting the scope B on a directory that has the scope A and
\* holds secrets succeeds, keeps every secret and encrypts it to B alone.
C5_ScopeCascade ==
    [][(/\ last'.op = "init_store" /\ last'.gpg_ids = <<"B">>
        /\ ~Escapes(last'.path) /\ ~last'.cwd_nondir
        /\ DirOf(last'.path) \in DOMAIN gpgids
        /\ gpgids[DirOf(last'.path)] = A
        /\ KeysUnder(DirOf(last'.path)) # {})
        => /\ last'.err = "ok"
           /\ \A k \in KeysUnder(DirOf(last'.path)) :
                 /\ k \in DOMAIN keys'
                 /\ keys'[k].data = keys[k].data
                 /\ keys'[k].rcpt = <<"B">>]_vars

PathOps == {"init_store", "get_key", "set_key", "remove_path", "gen_key",
            "copy_path", "move_path", "list_dir", "iter_dir"}

EscapingCall(call) ==
    /\ call.op \in PathOps
    /\ \/ Escapes(call.path)
       \/ (call.op \in {"copy_path", "move_path"} /\ Escapes(call.new_path))

\* C6 as claimed: a call whose path leaves the store fails with InvalidPath
\* and changes nothing.
C6_GuardAsClaimed ==
    [][EscapingCall(last') => (last'.err = InvalidPath /\ W' = W)]_vars

\* C6 amended: it fails and changes nothing; the failure is InvalidPath for
\* setScope and for every call on an initialised store, and the failure of
\* an uninitialised store otherwise.
C6_TraversalGuard ==
    [][EscapingCall(last')
        => /\ W' = W
           /\ last'.err = IF last'.op = "init_store" \/ RootScoped
                          THEN InvalidPath ELSE NotInitialised]_vars

C6_Witness ==
    /\ last.op = "remove_path" /\ last.recursive /\ last.err = InvalidPath
    /\ last.path = <<"a", "..", "..", "a">>
    /\ RootScoped /\ DOMAIN keys # {}

SecretOps == {"get_key", "set_key", "remove_path", "gen_key", "copy_path",
              "move_path", "list_dir", "iter_dir", "find", "search"}

\* C7: while the store root has no .gpg-id file, every secret operation
\* fails and leaves files, scope files and history as they were.
C7_Uninitialised ==
    [][(last'.op \in SecretOps /\ ~RootScoped) => (last'.err # "ok" /\ W' = W)]_vars

\* The store was removed by remove('', recursive) and then read.
C7_Witness ==
    /\ last.op = "get_key" /\ last.err = NotInitialised /\ last.path = <<"a">>
    /\ hist # <<>> /\ hist[1].msg.text = "Remove from store"
    /\ ~RootScoped

\* C8 as claimed: deleting a scope fails with MissingIdentityError when there
\* is none, and otherwise removes the .gpg-id file and keeps every secret.
C8_ScopeDeletion ==
    [][(/\ last'.op = "init_store" /\ last'.gpg_ids = <<>>
        /\ ~Escapes(last'.path) /\ ~last'.cwd_nondir)
        => IF DirOf(last'.path) \notin DOMAIN gpgids
           THEN last'.err = MissingIdentityError /\ W' = W
           ELSE /\ last'.err = "ok"
                /\ DirOf(last'.path) \notin DOMAIN gpgids'
                /\ \A k \in DOMAIN keys :
                      k \in DOMAIN keys' /\ keys'[k].data = keys[k].data]_vars

\* C9 as claimed: creating a scope succeeds whether the directory is absent
\* or exists, and the .gpg-id file then lists the given ids in order.
C9_ScopeCreation ==
    [][(/\ last'.op = "init_store" /\ last'.gpg_ids # <<>>
        /\ ~Escapes(last'.path) /\ ~last'.cwd_nondir)
        => /\ last'.err = "ok"
           /\ DirOf(last'.path) \in dirs'
           /\ DirOf(last'.path) \in DOMAIN gpgids'
           /\ gpgids'[DirOf(last'.path)] = last'.gpg_ids]_vars

\* C10: a successful generate in place returns a password p and leaves the
\* lines p, l1, ..., ln where the secret had l0, l1, ..., ln.
C10_InPlace ==
    [][(/\ last'.op = "gen_key" /\ last'.inplace /\ last'.err = "ok"
        /\ Present(W, last'.path))
        => LET old == split(Content(W, last'.path), NL)
               new == split(Content(W', last'.path), NL)
           IN  /\ Present(W', last'.path)
               /\ Len(last'.ret) = last'.length
               /\ new[1] = last'.ret
               /\ Len(new) = Len(old)
               /\ \A i \in 2..Len(old) : new[i] = old[i]]_vars

C10_Witness ==
    /\ last.op = "gen_key" /\ last.inplace /\ last.err = "ok"
    /\ last.path = <<"a">> /\ last.ret = <<"!">>
    /\ keys[<<"s", "a">>].data = <<"!", NL, "m", NL, "n">>

\* C11 as claimed: on an initialised store and for a name inside it, generate
\* fails with AlreadyExistsError on a present secret with neither force nor
\* inplace, fails with NotFoundError in place on an absent secret, and
\* succeeds in every other case; not in place the content is then the
\* returned password.
C11_GenerateOutcomesAsClaimed ==
    [][(/\ last'.op = "gen_key" /\ RootScoped
        /\ ~Escapes(last'.path) /\ normpath(last'.path) # <<>>)
        => IF Present(W, last'.path) /\ ~last'.force /\ ~last'.inplace
           THEN last'.err = AlreadyExistsError
           ELSE IF last'.inplace /\ ~Present(W, last'.path)
           THEN last'.err = NotFoundError
           ELSE /\ last'.err = "ok"
                /\ Len(last'.ret) = last'.length
                /\ ~last'.inplace => Content(W', last'.path) = last'.ret]_vars

\* C11: on an initialised store and for a name inside it, generate fails and
\* changes nothing when a parent of the name is a file, with the error of
\* making the directories (FileExistsError for the file itself,
\* NotADirectoryError below it); for every other name it fails with
\* AlreadyExistsError on a present secret with neither force nor inplace,
\* fails with NotFoundError in place on an absent secret, and succeeds in
\* every other case; not in place the content is then the returned password.
C11_GenerateOutcomes ==
    [][(/\ last'.op = "gen_key" /\ RootScoped
        /\ ~Escapes(last'.path) /\ normpath(last'.path) # <<>>)
        => IF UnderFile(last'.path)
           THEN /\ last'.err \in {"FileExistsError", "NotADirectoryError"}
                /\ W' = W
           ELSE IF Present(W, last'.path) /\ ~last'.force /\ ~last'.inplace
           THEN last'.err = AlreadyExistsError
           ELSE IF last'.inplace /\ ~Present(W, last'.path)
           THEN last'.err = NotFoundError
           ELSE /\ last'.err = "ok"
                /\ Len(last'.ret) = last'.length
                /\ ~last'.inplace => Content(W', last'.path) = last'.ret]_vars

\* The three-line key a was overwritten by a generated password alone.
C11_Witness ==
    /\ last.op = "gen_key" /\ last.force /\ ~last.inplace /\ last.err = "ok"
    /\ last.path = <<"a">> /\ last.ret = <<"p">>
    /\ keys[<<"s", "a">>].data = <<"p">>
    /\ <<"s", "a", "b">> \in DOMAIN keys

\* Whether a path of the caller ends with the path separator.
EndsWithSep(path) == path # <<>> /\ Last(path) = ""

\* The last component of a normalised path.
BaseName(path) == <<Last(normpath(path))>>

\* C12 as claimed: after a successful copy or move of a secret that is not a
\* directory, the secret is at newPath/<base name of oldPath> when newPath is
\* an existing directory or ends with the separator, and at newPath otherwise.
C12_Destination ==
    [][(/\ last'.op \in {"copy_path", "move_path"} /\ last'.err = "ok"
        /\ Present(W, last'.path) /\ DirOf(last'.path) \notin dirs)
        => IF DirOf(last'.new_path) \in dirs \/ EndsWithSep(last'.new_path)
           THEN Content(W', normpath(last'.new_path) \o BaseName(last'.path))
                    = Content(W, last'.path)
           ELSE Content(W', last'.new_path) = Content(W, last'.path)]_vars

\* The logical name a secret copied or moved to new_path ends up at.
DestName(old_path, new_path) ==
    IF DirOf(new_path) \in dirs THEN normpath(new_path) \o BaseName(old_path)
    ELSE normpath(new_path)

\* C13: for a secret that is not a directory and a destination secret that is
\* present, copy and move without force fail with AlreadyExistsError and
\* change nothing; with force the destination then has the source's content,
\* the call succeeding unless source and destination are the same secret,
\* and after a copy the source still has its content.  For a directory and a
\* destination directory that exists the same holds of every secret below.
C13_CopyMoveConflict ==
    [][(last'.op \in {"copy_path", "move_path"} /\ RootScoped
        /\ ~Escapes(last'.path) /\ ~Escapes(last'.new_path))
        => LET a == last'.path
               b == DestName(last'.path, last'.new_path)
           IN  /\ (Present(W, a) /\ DirOf(a) \notin dirs /\ Present(W, b))
                    => IF ~last'.force
                       THEN last'.err = AlreadyExistsError /\ W' = W
                       ELSE /\ Content(W', b) = Content(W, a)
                            /\ normpath(a) # b => last'.err = "ok"
                            /\ last'.op = "copy_path"
                                 => Content(W', a) = Content(W, a)
               /\ (DirOf(a) \in dirs /\ DirOf(last'.new_path) \in dirs)
                    => IF ~last'.force
                       THEN last'.err = AlreadyExistsError /\ W' = W
                       ELSE last'.err = "ok"
                            => \A k \in KeysUnder(DirOf(a)) :
                                  /\ Content(W', normpath(last'.new_path)
                                                 \o Below(k, DirOf(a)))
                                        = keys[k].data
                                  /\ last'.op = "copy_path"
                                        => k \in DOMAIN keys'
                                           /\ keys'[k].data = keys[k].data]_vars

\* The key a was copied over the key b/a with force, and is still there.
C13_Witness ==
    /\ last.op = "copy_path" /\ last.force /\ last.err = "ok"
    /\ last.path = <<"a">> /\ last.new_path = <<"b", "">>
    /\ DOMAIN keys = {<<"s", "a">>, <<"s", "b", "a">>}
    /\ keys[<<"s", "b", "a">>].data = <<"x">>
    /\ keys[<<"s", "a">>].data = <<"x">>
    /\ Len(hist) = 1

\* Whether directory d holds a directory, a key file or a .gpg-id file.
HasEntries(d) ==
    \/ \E x \in dirs : x # <<>> /\ Front(x) = d
    \/ \E k \in DOMAIN keys : Front(k) = d
    \/ d \in DOMAIN gpgids
    \/ \E x \in DOMAIN files : Front(x) = d

\* C14: on an initialised store, remove of a directory removes exactly its
\* subtree when recursive, fails with DirectoryNotEmptyError and removes
\* nothing when not recursive and the directory has entries, and removes the
\* empty directory otherwise; remove of a name that is no directory removes
\* exactly that secret when it is present and fails with NotFoundError and
\* removes nothing when it is not.
C14_Remove ==
    [][(last'.op = "remove_path" /\ RootScoped /\ ~Escapes(last'.path))
        => LET d == DirOf(last'.path) IN
           IF d \in dirs
           THEN IF last'.recursive
                THEN /\ last'.err = "ok"
                     /\ dirs' = {x \in dirs : ~IsPrefix(d, x)}
                     /\ keys' = Restrict(keys, {k \in DOMAIN keys : ~IsPrefix(d, Front(k))})
                     /\ gpgids' = Restrict(gpgids, {g \in DOMAIN gpgids : ~IsPrefix(d, g)})
                     /\ files' = Restrict(files, {x \in DOMAIN files : ~IsPrefix(d, Front(x))})
                ELSE IF HasEntries(d)
                THEN last'.err = DirectoryNotEmptyError /\ W' = W
                ELSE /\ last'.err = "ok"
                     /\ dirs' = dirs \ {d} /\ keys' = keys /\ gpgids' = gpgids
                     /\ files' = files
           ELSE IF Present(W, last'.path)
           THEN /\ last'.err = "ok"
                /\ ~Present(W', last'.path)
                /\ keys' = Restrict(keys, DOMAIN keys \ {d})
                /\ dirs' = dirs /\ gpgids' = gpgids /\ files' = files
           ELSE last'.err = NotFoundError /\ W' = W]_vars

\* The directory b of the scoped store was removed with its key and its
\* .gpg-id file; the key a and the root's .gpg-id file are still there.
C14_Witness ==
    /\ last.op = "remove_path" /\ last.recursive /\ last.err = "ok"
    /\ last.path = <<"b", "">>
    /\ DOMAIN keys = {<<"s", "a">>}
    /\ DOMAIN gpgids = {<<"s">>}
    /\ dirs = {<<>>, <<"s">>}

\* The names of hidden directory entries.
HiddenNames == {".", ".b", ".gitattributes", ".gpg-id", ".h"}

\* Whether names lists the entries S once each, as names relative to the
\* store and in ascending order of the entry name.
Listed(names, S) ==
    /\ Len(names) = Cardinality(S)
    /\ {store_dir \o names[i] : i \in 1..Len(names)} = S
    /\ \A i, j \in 1..Len(names) :
          i < j => rank(Last(names[i])) < rank(Last(names[j]))

\* C15 as claimed: on an initialised store, listChildren of a path inside it
\* fails with NotFoundError when the path is no directory (as None is none),
\* and otherwise returns the directory's own non-hidden subdirectories and
\* its own non-hidden key files, each list once each and in ascending order
\* of the entry name.
C15_ListChildren ==
    (last.op = "list_dir" /\ RootScoped /\ ~Escapes(last.path))
        => LET d == DirOf(last.path) IN
           IF last.path = None \/ d \notin dirs THEN last.err = NotFoundError
           ELSE /\ last.err = "ok"
                /\ Listed(last.ret_dirs,
                          {x \in dirs : x # <<>> /\ Front(x) = d
                                        /\ Last(x) \notin HiddenNames})
                /\ Listed(last.ret_keys,
                          {k \in DOMAIN keys : Front(k) = d
                                               /\ Last(k) \notin HiddenNames})

\* The first position at which the sequences p and q differ (one more than
\* the length of the shorter when it is a prefix of the other).
FirstDiff(p, q) ==
    CHOOSE i \in 1..(Len(p) + 1) :
        /\ \A j \in 1..(i - 1) : j <= Len(q) /\ p[j] = q[j]
        /\ i > Len(p) \/ i > Len(q) \/ p[i] # q[i]

\* Whether a depth-first walk that takes the entries of each directory in
\* ascending order of name meets the key p before the key q: the directory x
\* comes before the file x.gpg.
WalkBefore(p, q) ==
    LET i == FirstDiff(p, q)
    IN  IF i > Len(q) THEN p # q
        ELSE IF i > Len(p) THEN FALSE
        ELSE rank(p[i]) < rank(q[i])

\* The keys below directory d that have no hidden component below d.
VisibleKeys(d) ==
    {k \in DOMAIN keys :
        /\ IsPrefix(d, Front(k))
        /\ \A i \in (Len(d) + 1)..Len(k) : k[i] \notin HiddenNames}

\* A walk has ended, and the store is as it was when iter_dir was called.
WalkEnded == gen.state = "done" /\ last.op = "next" /\ ~walked.disturbed

\* A walk of a directory that has ended with the store as it was has ended by
\* returning, and has yielded the visible keys below the directory, once
\* each, in the order of the depth-first walk.
WalkResult ==
    (WalkEnded /\ DirOf(gen.path) \in dirs)
        => /\ last.err = "StopIteration"
           /\ Len(walked.yielded) = Cardinality(VisibleKeys(DirOf(gen.path)))
           /\ {store_dir \o walked.yielded[i] : i \in 1..Len(walked.yielded)}
                 = VisibleKeys(DirOf(gen.path))
           /\ \A i, j \in 1..Len(walked.yielded) :
                 i < j => WalkBefore(walked.yielded[i], walked.yielded[j])

\* C16: a walk during which the store is not changed yields the secrets
\* below its path that have no hidden component below it, once each and
\* nothing else, in the depth-first order that takes the entries of a
\* directory in ascending order of name; what it yields and how it ends are
\* what a walk of the same path made at once on the store as it is yields
\* and how that one ends, so two walks with no change between them agree.
C16_Walk ==
    /\ WalkResult
    /\ WalkEnded
            => IF last.err = "StopIteration"
               THEN list_iter_dir(W, gen.path) = Ok(W, walked.yielded)
               ELSE list_iter_dir(W, gen.path) = Fail(W, last.err)

\* The store with the key a and the directory a was walked from the root:
\* the key a/b of the directory comes before the key a.
C16_Witness ==
    /\ WalkEnded /\ last.err = "StopIteration"
    /\ gen.path = <<>>
    /\ walked.yielded = <<<<"a", "b">>, <<"a">>>>
    /\ hist = <<>> /\ repo

\* Whether the characters t are in s at some place, one after the other.
Substring(t, s) ==
    \E off \in 0..Len(s) :
        /\ off + Len(t) <= Len(s)
        /\ \A c \in 1..Len(t) : s[off + c] = t[c]

\* Whether the name of a key contains one of the names.
Matches(key, names) == \E n \in 1..Len(names) : Substring(names[n], chars_of(key))

\* The place of a key in a sequence of keys.
PlaceIn(seq, key) == CHOOSE i \in 1..Len(seq) : seq[i] = key

\* C17: on an initialised store, find(names) returns the secrets of the walk
\* from the root whose name contains one of the names, once each and in the
\* order of the walk.
C17_Find ==
    (last.op = "find" /\ RootScoped)
        => LET walk == list_iter(W).ret
               hits == {i \in 1..Len(walk) : Matches(walk[i], last.names)}
           IN  /\ last.err = "ok"
               /\ Len(last.ret_keys) = Cardinality(hits)
               /\ {last.ret_keys[i] : i \in 1..Len(last.ret_keys)}
                     = {walk[i] : i \in hits}
               /\ \A i, j \in 1..Len(last.ret_keys) :
                     i < j => PlaceIn(walk, last.ret_keys[i])
                                 < PlaceIn(walk, last.ret_keys[j])

\* The key a/b, whose name contains both "b" and "a/", was found once, and
\* the key a, whose name contains neither, was not.
C17_Witness ==
    /\ last.op = "find" /\ last.err = "ok"
    /\ last.names = <<<<"b">>, <<"a", "/">>>>
    /\ last.ret_keys = <<<<"a", "b">>>>
    /\ DOMAIN keys = {<<"s", "a">>, <<"s", "a", "b">>}

\* The calls that are to change the store: set and generate of the empty
\* name return at once and are none of them.
Mutators == {"init_store", "set_key", "gen_key", "remove_path", "copy_path", "move_path"}

Mutating(call) ==
    /\ call.op \in Mutators
    /\ call.op \in {"set_key", "gen_key"} => call.path # <<>>

\* Whether what the change c recorded at its path is what the world w has
\* there, and a removed path was gone when its removal was recorded.
Contained(w, c) ==
    /\ c = Change(w, c.kind, [p |-> c.p, gpg |-> c.gpg])
    /\ c.kind = "rm" => ~c.present

\* C18: with a repository, a successful mutating call records at least one
\* commit; what each commit of a call recorded at its paths is what the store
\* has there when the call returns, so the changes were made before they
\* were recorded; and a failed call records and stages nothing.
C18_HistoryOrder ==
    [][/\ (repo /\ Mutating(last') /\ last'.err = "ok") => Len(hist') > Len(hist)
       /\ last'.err # "ok" => (hist' = hist /\ staged' = staged)
       /\ Len(hist') >= Len(hist) /\ SubSeq(hist', 1, Len(hist)) = hist
       /\ \A n \in (Len(hist) + 1)..Len(hist') :
             \A i \in 1..Len(hist'[n].changes) : Contained(W', hist'[n].changes[i])]_vars

\* A key was set: the one commit records the key file with the data written.
C18_Witness ==
    /\ last.op = "set_key" /\ last.err = "ok" /\ last.path = <<"a", ".", "b">>
    /\ Len(hist) = 1 /\ Len(hist[1].changes) = 1
    /\ hist[1].changes[1].kind = "add" /\ hist[1].changes[1].present
    /\ DOMAIN hist[1].changes[1].keys = {<<"s", "a", "b">>}
    /\ hist[1].changes[1].keys[<<"s", "a", "b">>].data = last.data

\* The step is a successful copy or move.
CopiedOrMoved == last'.op \in {"copy_path", "move_path"} /\ last'.err = "ok"

\* The step adds one commit: for a move, with the message "Rename" of the
\* two normalised paths, the removal of the source and then the addition of
\* the destination; for a copy, with the message "Copy", the addition of the
\* destination alone; nothing is left staged.
OneCommitAdded ==
    /\ Len(hist') = Len(hist) + 1
    /\ SubSeq(hist', 1, Len(hist)) = hist
    /\ staged' = <<>>
    /\ LET e == hist'[Len(hist')]
           args == <<normpath(last'.path), normpath(last'.new_path)>>
       IN  IF last'.op = "move_path"
           THEN /\ e.msg = Msg("Rename", args)
                /\ Len(e.changes) = 2
                /\ e.changes[1].kind = "rm"
                /\ e.changes[1].p = DirOf(last'.path)
                /\ e.changes[1].gpg = (DirOf(last'.path) \notin dirs)
                /\ e.changes[2].kind = "add"
           ELSE /\ e.msg = Msg("Copy", args)
                /\ Len(e.changes) = 1
                /\ e.changes[1].kind = "add"

\* C19 as it is stated: every successful move and every successful copy adds
\* its one commit, whether the store has a repository or not.
C19_OneCommitAsClaimed == [][CopiedOrMoved => OneCommitAdded]_vars

\* C19: in a store with a repository, a successful move adds one commit,
\* with the message "Rename" of the two normalised paths, whose changes are
\* the removal of the source and then the addition of the destination, and
\* leaves nothing staged; a successful copy adds one commit, with the message
\* "Copy", whose one change is the addition of the destination.  Without a
\* repository neither records anything.
C19_OneCommit ==
    [][CopiedOrMoved => IF repo THEN OneCommitAdded
                        ELSE hist' = hist /\ staged' = staged]_vars

\* The key a was moved to a/b: one commit, the removal of a and then the
\* addition of a/b.
C19_Witness ==
    /\ last.op = "move_path" /\ last.err = "ok"
    /\ last.path = <<"a">> /\ last.new_path = <<"a", ".", "b">>
    /\ repo /\ Len(hist) = 1 /\ staged = <<>>
    /\ hist[1].msg = Msg("Rename", <<<<"a">>, <<"a", "b">>>>)
    /\ Len(hist[1].changes) = 2
    /\ hist[1].changes[1].kind = "rm" /\ hist[1].changes[1].p = <<"s", "a">>
    /\ hist[1].changes[2].kind = "add" /\ hist[1].changes[2].p = <<"s", "a", "b">>

\* The failures of a precondition: AlreadyExistsError and PathConflictError,
\* NotFoundError and MissingIdentityError, DirectoryNotEmptyError.
PreconditionErrors ==
    {AlreadyExistsError, PathConflictError, NotFoundError, MissingIdentityError,
     DirectoryNotEmptyError}

\* C20 as claimed: a set, generate, remove, copy, move or setScope that fails
\* with one of these errors leaves the directories, the key files, the
\* .gpg-id files and the history as they were.
C20_FailureUnchanged ==
    [][(last'.op \in Mutators /\ last'.err \in PreconditionErrors)
        => (dirs' = dirs /\ keys' = keys /\ gpgids' = gpgids /\ hist' = hist)]_vars

\* No directory below the root of the store is without entries.
NoEmptyDirs ==
    \A d \in dirs : (IsPrefix(store_dir, d) /\ d # store_dir) => HasEntries(d)

\* C21 as claimed: a set, generate, remove, copy, move or setScope on an
\* initialised store without empty directories, successful or failed, leaves
\* the store without empty directories.
C21_NoEmptyDirs ==
    [][(RootScoped /\ NoEmptyDirs /\ last'.op \in Mutators) => NoEmptyDirs']_vars

====
